---------------------------- MODULE Spec2Model ----------------------------
(***************************************************************************)
(* A model of the paragraph builder of the typeset library                 *)
(* (src/src/linebreaks.cpp): Paragraph::prepare, the feasible-breakpoint   *)
(* pass (computeFeasibleBreakpoints / tryBreak), the choice of the best    *)
(* chain (computeBreakpoints) and the assembly of the lines (create).      *)
(*                                                                         *)
(* Dimensions are floats in the code.  The model keeps them integral and   *)
(* represents every glue ratio exactly, as a pair <<n, d>> with d > 0      *)
(* standing for n/d; all comparisons of ratios are done on that fraction.  *)
(* List iterators are indices 1..Len(hlist); hlist.end() is Len(hlist)+1.  *)
(* The shared_ptr<Breakpoint> objects live in the sequence `bps`; a        *)
(* pointer is an index into it and 0 is nullptr.                           *)
(*                                                                         *)
(* The module also models the layout reader                                *)
(* (src/include/tex/layoutreader.h), as a machine that walks a box tree    *)
(* with an explicit call stack, and Preprocessor::write                    *)
(* (src/include/tex/parsing/preprocessor.h).  Each of the three parts has  *)
(* its own variables and its own specification; a specification leaves the *)
(* variables of the other parts at their idle values.                      *)
(***************************************************************************)
EXTENDS Integers, Sequences, FiniteSets, TLC

VARIABLES
  pc,          \* where the caller is: "input", "prepared", "scan", ...
  hlist,       \* the horizontal list (a sequence of nodes)
  hlist0,      \* the list as it was handed to prepare (history)
  hlistCall,   \* the list as it was when computeBreakpoints was called (history)
  parCall,     \* the configuration when computeBreakpoints was called (history)
  par,         \* the Paragraph configuration fields
  it,          \* the iterator of the loop of computeFeasibleBreakpoints
  prevnode,    \* prevnode of that loop (Len(hlist)+1 stands for hlist.end())
  sum,         \* the running Totals of that loop
  bps,         \* every Breakpoint object made so far
  activeNodes, \* the list of active breakpoints (pointers)
  lastActive,  \* activeNodes as it was before the last loop step (history)
  breakpoints, \* the vector returned by computeBreakpoints (pointers, in order)
  lineStart,   \* `it` of the loop of create
  bp,          \* `bp` of the loop of create (an index into breakpoints)
  result,      \* the vertical list built by create
  entry,       \* the function the caller calls after prepare:
               \* "create" is create(hlist), "computeBreakpoints" is
               \* computeBreakpoints(hlist) followed by create(hlist, breakpoints)
  \* the layout reader
  layout,      \* the box tree handed to read
  mode,        \* "full" (the visitor returns void) or "partial" (it returns bool)
  doneAt,      \* the visitor returns Done at its doneAt-th call (0: never)
  calls,       \* the stack of running read_hbox_* / read_vbox_* calls, innermost last
  visits,      \* the calls of the visitor so far: the path of the box and pos
  ret,         \* the value being returned to the caller of the innermost call
  \* the preprocessor
  input,       \* Preprocessor::input, the pending tokens
  output,      \* Preprocessor::output
  processed,   \* the tokens handed to process() so far, in order (history)
  written,     \* the number of tokens written so far (history)
  \* computeBadness on its own
  glueSetRatio, \* the ratio handed to computeBadness
  maxratio,    \* maxratio of tryBreak, the tolerance
  cast,        \* the int a conversion of an out-of-range double leaves
  computed,    \* what computeBadness returned: <<>> before the call, <<b>> after
  \* the math mode
  m_state,     \* MathMode::m_state: "Main" or "MathShift"
  parentKind,  \* parent().kind(), the kind of the mode below on the stack
  output_routine, \* "given": the routine handed to the constructor; "default":
               \* the throwing routine of the one-argument constructor
  token,       \* the token of the last write ("none" before the first)
  stateBefore, \* m_state when the last write began (history)
  mathCalls,   \* the calls the last write made on the parser, the routine
               \* and the machine, in order
  history,     \* the same calls of every write so far, in order (history)
  raised,      \* what the last write threw ("" if it returned)
  left,        \* machine().leaveCurrentMode() has popped the mode
  tokens       \* the number of tokens written so far (history)

paragraphVars == <<pc, hlist, hlist0, hlistCall, parCall, par, it, prevnode, sum,
                   bps, activeNodes, lastActive, breakpoints, lineStart, bp,
                   result, entry>>

traversalVars == <<layout, mode, doneAt, calls, visits, ret>>

preprocessorVars == <<input, output, processed, written>>

badnessVars == <<glueSetRatio, maxratio, cast, computed>>

mathVars == <<m_state, parentKind, output_routine, token, stateBefore, mathCalls,
              history, raised, left, tokens>>

vars == <<paragraphVars, traversalVars, preprocessorVars, badnessVars, mathVars>>

-----------------------------------------------------------------------------
(* Bounds of the model. *)

\* longest input list drawn from the full node alphabet
MaxLen == 3

\* largest number of boxes of a paragraph-shaped input list
MaxWords == 4

\* largest number of words of the lists the line geometries are tried on
MaxGeometryWords == 6

\* largest line number the line geometry is evaluated for
MaxLine == 8

\* largest number of tokens written to the preprocessor
MaxWritten == 3

\* largest number of words of the paragraphs the adjacency of classes is
\* tried on
MaxAdjacencyWords == 6

\* largest number of words of the paragraphs broken at penalties
MaxPenaltyWords == 3

\* largest denominator of the ratios computeBadness is tried on
MaxDenominator == 3

-----------------------------------------------------------------------------
(* Program constants. *)

\* Penalty::Infinity, the sentinel the code compares penalties with
Infinity == 10000

\* std::numeric_limits<int>::max(), the demerits of an empty Candidate
IntMax == 2147483647

\* GlueOrder
Normal == 0
Fil == 1
Fill == 2
Filll == 3

\* FitnessClass
Tight == 0
Decent == 1
Loose == 2
VeryLoose == 3

-----------------------------------------------------------------------------
(* Nodes.  Every node is a record of the same shape: `w` is the width of a *)
(* box, the space of a glue or a kern, the value of a penalty.  Every box  *)
(* of the inputs has the same height and depth.                            *)

Box(width) ==
  [type |-> "box", w |-> width, stretch |-> 0, shrink |-> 0,
   stretchOrder |-> Normal, shrinkOrder |-> Normal, height |-> 7, depth |-> 2]

Glue(spce, shrnk, strtch, shrnkOrder, strtchOrder) ==
  [type |-> "glue", w |-> spce, stretch |-> strtch, shrink |-> shrnk,
   stretchOrder |-> strtchOrder, shrinkOrder |-> shrnkOrder,
   height |-> 0, depth |-> 0]

Kern(space) ==
  [type |-> "kern", w |-> space, stretch |-> 0, shrink |-> 0,
   stretchOrder |-> Normal, shrinkOrder |-> Normal, height |-> 0, depth |-> 0]

Penalty(value) ==
  [type |-> "penalty", w |-> value, stretch |-> 0, shrink |-> 0,
   stretchOrder |-> Normal, shrinkOrder |-> Normal, height |-> 0, depth |-> 0]

\* Node::isBox(): a character box, a rule or a list box (hbox, vbox)
isBox(node) == node.type \in {"box", "rule", "hbox", "vbox"}
isGlue(node) == node.type = "glue"
isKern(node) == node.type = "kern"
isPenalty(node) == node.type = "penalty"

infinitePenalty == Penalty(Infinity)

isDiscardable(node) == isKern(node) \/ isGlue(node) \/ isPenalty(node)

isForcedLinebreak(node) == isPenalty(node) /\ node.w <= -Infinity

isForbiddenLinebreak(node) == isPenalty(node) /\ node.w >= Infinity

-----------------------------------------------------------------------------
(* Totals.  StretchTotals and ShrinkTotals hold one accumulator per glue   *)
(* order; they are functions 0..3 -> Int here.                             *)

ZeroOrders == [o \in 0..3 |-> 0]

\* GlueStretch / GlueShrink ::order(): the highest order with a non-zero amount
order(t) ==
  IF t[Filll] # 0 THEN Filll
  ELSE IF t[Fill] # 0 THEN Fill
  ELSE IF t[Fil] # 0 THEN Fil
  ELSE Normal

\* Glue::accumulate on the stretch side
accumulateStretch(t, g) == [t EXCEPT ![g.stretchOrder] = @ + g.stretch]

\* Glue::accumulate on the shrink side
accumulateShrink(t, g) == [t EXCEPT ![g.shrinkOrder] = @ + g.shrink]

\* Paragraph::Totals::Totals()
ZeroTotals == [width |-> 0, stretch |-> ZeroOrders, shrink |-> ZeroOrders]

\* sum.width += g.space(); g.accumulate(sum.shrink, sum.stretch);
addGlue(t, g) ==
  [width |-> t.width + g.w,
   stretch |-> accumulateStretch(t.stretch, g),
   shrink |-> accumulateShrink(t.shrink, g)]

shrinkTotals(lskip, rskip) ==
  accumulateShrink(accumulateShrink(ZeroOrders, lskip), rskip)

stretchTotals(lskip, rskip) ==
  accumulateStretch(accumulateStretch(ZeroOrders, lskip), rskip)

Abs(x) == IF x < 0 THEN -x ELSE x

-----------------------------------------------------------------------------
(* The line geometry. *)

\* mutant: the hanging indent starts one line late
hangindentAppliesAfter(n) ==
  \/ (par.hangafter < 0 /\ n < -par.hangafter)
  \/ (par.hangafter >= 0 /\ par.hangafter < n)

\* line numbers stay far below 2^31 here, where static_cast<int>(n) is n
hangindentAppliesToLine(n) ==
  \/ (par.hangafter < 0 /\ n < -par.hangafter)
  \/ (par.hangafter >= 0 /\ par.hangafter <= n)

\* mutant: the hanging indent is looked at before the parshape
linelengthHangFirst(n) ==
  IF par.hangindent # 0 /\ hangindentAppliesToLine(n)
  THEN par.hsize - Abs(par.hangindent)
  ELSE IF par.parshape # <<>>
       THEN IF n >= Len(par.parshape)
            THEN par.parshape[Len(par.parshape)].length
            ELSE par.parshape[n + 1].length
       ELSE par.hsize

linelength(n) ==
  IF par.parshape # <<>>
  THEN IF n >= Len(par.parshape)
       THEN par.parshape[Len(par.parshape)].length
       ELSE par.parshape[n + 1].length
  ELSE IF par.hangindent # 0 /\ hangindentAppliesToLine(n)
       THEN par.hsize - Abs(par.hangindent)
       ELSE par.hsize

-----------------------------------------------------------------------------
(* Glue ratios, badness, fitness classes and demerits.                     *)
(* A ratio is <<n, d>>, d > 0, standing for the float n/d.                 *)

RatioZero == <<0, 1>>

\* (float) Penalty::Infinity
RatioInfinity == <<Infinity, 1>>

\* r < k, r <= k for an integer k, and 2r < k, 2r <= k
RatioLess(r, k) == r[1] < k * r[2]
RatioLeq(r, k) == r[1] <= k * r[2]
RatioTwiceLess(r, k) == 2 * r[1] < k * r[2]
RatioTwiceLeq(r, k) == 2 * r[1] <= k * r[2]
RatioEq(r, s) == r[1] * s[2] = s[1] * r[2]

UnderfullRatio(line_length, width, diff) ==
  IF order(diff) # Normal THEN RatioZero
  ELSE IF diff[Normal] > 0 THEN <<line_length - width, diff[Normal]>>
  ELSE RatioInfinity

OverfullRatio(line_length, width, diff) ==
  IF order(diff) # Normal THEN RatioZero
  ELSE IF diff[Normal] > 0 THEN <<line_length - width, diff[Normal]>>
  ELSE RatioInfinity

\* the effective width of the candidate line, lines 279-282
lineWidth(s, active) ==
  s.width - active.totals.width - par.leftskip.w - par.rightskip.w

computeGlueRatio(s, active, current_line) ==
  LET width == lineWidth(s, active)
      line_length == linelength(current_line)
  IN IF width < line_length
     THEN UnderfullRatio(line_length, width,
            [o \in 0..3 |-> s.stretch[o]
                            + stretchTotals(par.leftskip, par.rightskip)[o]
                            - active.totals.stretch[o]])
     ELSE IF width > line_length
     THEN OverfullRatio(line_length, width,
            [o \in 0..3 |-> s.shrink[o]
                            + shrinkTotals(par.leftskip, par.rightskip)[o]
                            - active.totals.shrink[o]])
     ELSE RatioZero

Min(a, b) == IF a < b THEN a ELSE b

\* std::numeric_limits<int>::min()
IntMin == -IntMax - 1

\* 100 * |r|^3 is below 2^31, so that (int) of it is defined: |r| < 277.96.
\* The denominators of the ratios of the model are below 24, and no
\* fraction of such a denominator lies between 277.95 and 278.
castDefined(r) == Abs(r[1]) < 278 * r[2]

\* std::min((int)(100 * std::pow(std::abs(r), 3)), 10'000).  The product
\* is a double and the conversion to int comes before the min: for a value
\* of 2^31 or more the conversion is undefined, and `cast` is the int it
\* leaves.  From |r| = 5 on the value is 12500 or more and the min is 10000.
computeBadness(r) ==
  LET n == Abs(r[1])
      d == r[2]
  IN IF ~castDefined(r) THEN Min(cast, 10000)
     ELSE IF n >= 5 * d THEN 10000
     ELSE Min((100 * n * n * n) \div (d * d * d), 10000)

getFitnessClass(r) ==
  IF RatioTwiceLess(r, -1) THEN Tight
  ELSE IF RatioTwiceLeq(r, 1) THEN Decent
  ELSE IF RatioLeq(r, 1) THEN Loose
  ELSE VeryLoose

\* mutant: only equal classes are compatible
checkCompatibilityEqualOnly(a, b) == Abs(a - b) < 1

checkCompatibility(a, b) == Abs(a - b) <= 1

\* mutant: the sign of the line term and of the penalty term exchanged
computeDemeritsPenaltyFirst(l, b, p) ==
  IF 0 <= p /\ p < 10000 THEN p * p - (l + b) * (l + b)
  ELSE IF -10000 < p /\ p < 0 THEN -(p * p) - (l + b) * (l + b)
  ELSE -((l + b) * (l + b))

\* mutant: the bounds -10000 and 10000 taken for penalties with a term
computeDemeritsClosedBounds(l, b, p) ==
  IF 0 <= p /\ p <= 10000 THEN (l + b) * (l + b) + p * p
  ELSE IF -10000 <= p /\ p < 0 THEN (l + b) * (l + b) - p * p
  ELSE (l + b) * (l + b)

computeDemerits(l, b, p) ==
  IF 0 <= p /\ p < 10000 THEN (l + b) * (l + b) + p * p
  ELSE IF -10000 < p /\ p < 0 THEN (l + b) * (l + b) - p * p
  ELSE (l + b) * (l + b)

-----------------------------------------------------------------------------
(* squeezeDiscardables: the totals from the breakpoint up to the next box  *)
(* or forced line break.                                                   *)

RECURSIVE squeezeFrom(_, _, _, _)
squeezeFrom(list, s, breakpointpos, i) ==
  IF i > Len(list) THEN s
  ELSE LET node == list[i]
       IN IF isGlue(node) THEN squeezeFrom(list, addGlue(s, node), breakpointpos, i + 1)
          ELSE IF isKern(node)
          THEN squeezeFrom(list, [s EXCEPT !.width = @ + node.w], breakpointpos, i + 1)
          ELSE IF isBox(node) \/ (i # breakpointpos /\ isForcedLinebreak(node))
          THEN s
          ELSE squeezeFrom(list, s, breakpointpos, i + 1)

\* mutant: the node at the breakpoint itself is left out
squeezeDiscardablesAfter(list, s, breakpointpos) ==
  squeezeFrom(list, s, breakpointpos, breakpointpos + 1)

squeezeDiscardables(list, s, breakpointpos) ==
  squeezeFrom(list, s, breakpointpos, breakpointpos)

-----------------------------------------------------------------------------
(* Breakpoints and tryBreak. *)

Breakpoint(pos, d, l, fc, t, prev) ==
  [position |-> pos, demerits |-> d, line |-> l, fitness |-> fc,
   totals |-> t, previous |-> prev]

\* Candidate candidates[4], all empty
EmptyCandidates == [fc \in 0..3 |-> [active |-> 0, demerits |-> IntMax]]

\* mutant: a forced break does not deactivate
DeactivatesRatioOnly(ratio, node) == RatioLess(ratio, -1)

\* line 395: if (ratio < -1 || isForcedLinebreak(*node)) erase
Deactivates(ratio, node) == RatioLess(ratio, -1) \/ isForcedLinebreak(node)

\* mutant: the tolerance itself is not allowed
FeasibleBelowTolerance(ratio) ==
  ~RatioLess(ratio, -1) /\ RatioLess(ratio, par.tolerance)

\* line 398: if (-1 <= ratio && ratio <= maxratio)
Feasible(ratio) == ~RatioLess(ratio, -1) /\ RatioLeq(ratio, par.tolerance)

\* mutant: the demerits of the chain before the line are not added
candidateDemeritsLineOnly(active_bp, ratio, node) ==
  LET badness == computeBadness(ratio)
      d == computeDemerits(par.linepenalty, badness,
                           IF isPenalty(node) THEN node.w ELSE 0)
      fc == getFitnessClass(ratio)
  IN IF ~checkCompatibility(fc, active_bp.fitness) THEN d + par.adjdemerits ELSE d

\* lines 400-409: the demerits of the chain through `active_bp` to a break at `node`
candidateDemerits(active_bp, ratio, node) ==
  LET badness == computeBadness(ratio)
      d == computeDemerits(par.linepenalty, badness,
                           IF isPenalty(node) THEN node.w ELSE 0)
      fc == getFitnessClass(ratio)
  IN (IF ~checkCompatibility(fc, active_bp.fitness) THEN d + par.adjdemerits ELSE d)
     + active_bp.demerits

\* mutant: the comparison dropped, the last feasible candidate is kept
betterCandidateLast(d, kept) == TRUE

\* mutant: on equal demerits the later breakpoint replaces the earlier
betterCandidateOrEqual(d, kept) == d <= kept.demerits

\* lines 411-412: if (d < candidates[fc].demerits) candidates[fc] = {active_bp, d}
betterCandidate(d, kept) == d < kept.demerits

\* mutant: a breakpoint that is erased is not offered as a candidate
updateCandidatesUnlessErased(cands, heap, a, ratio, node) ==
  IF Feasible(ratio) /\ ~Deactivates(ratio, node)
  THEN LET d == candidateDemerits(heap[a], ratio, node)
           fc == getFitnessClass(ratio)
       IN IF betterCandidate(d, cands[fc])
          THEN [cands EXCEPT ![fc] = [active |-> a, demerits |-> d]]
          ELSE cands
  ELSE cands

\* lines 398-413 for one active breakpoint (a pointer `a` into `heap`)
updateCandidates(cands, heap, a, ratio, node) ==
  IF Feasible(ratio)
  THEN LET d == candidateDemerits(heap[a], ratio, node)
           fc == getFitnessClass(ratio)
       IN IF betterCandidate(d, cands[fc])
          THEN [cands EXCEPT ![fc] = [active |-> a, demerits |-> d]]
          ELSE cands
  ELSE cands

\* lines 387-416: the inner loop over the active breakpoints of one line number.
\* `rest` is the part of the active list from `active` on; `kept` collects
\* the breakpoints of the group that were not erased.
RECURSIVE innerLoop(_, _, _, _, _, _, _)
innerLoop(heap, rest, current_line, node, s, cands, kept) ==
  IF rest = <<>> \/ heap[Head(rest)].line # current_line
  THEN [candidates |-> cands, kept |-> kept, rest |-> rest]
  ELSE LET a == Head(rest)
           ratio == computeGlueRatio(s, heap[a], current_line)
       IN innerLoop(heap, Tail(rest), current_line, node, s,
                    updateCandidates(cands, heap, a, ratio, node),
                    IF Deactivates(ratio, node) THEN kept ELSE Append(kept, a))

\* mutant: the new breakpoint keeps the line number of its predecessor
RECURSIVE newBreakpointsSameLine(_, _, _, _, _)
newBreakpointsSameLine(cands, heap, pos, local_sum, i) ==
  IF i > 3 THEN <<>>
  ELSE LET c == cands[i]
           more == newBreakpointsSameLine(cands, heap, pos, local_sum, i + 1)
       IN IF c.demerits < IntMax
          THEN <<Breakpoint(pos, c.demerits, heap[c.active].line, i,
                            local_sum, c.active)>> \o more
          ELSE more

\* lines 423-433: the breakpoints made from the candidates of classes i..3
RECURSIVE newBreakpoints(_, _, _, _, _)
newBreakpoints(cands, heap, pos, local_sum, i) ==
  IF i > 3 THEN <<>>
  ELSE LET c == cands[i]
           more == newBreakpoints(cands, heap, pos, local_sum, i + 1)
       IN IF c.demerits < IntMax
          THEN <<Breakpoint(pos, c.demerits, heap[c.active].line + 1, i,
                            local_sum, c.active)>> \o more
          ELSE more

\* mutant: the new breakpoints are put at the front of the active list
RECURSIVE outerLoopInsertFront(_, _, _, _, _, _)
outerLoopInsertFront(heap, done, rest, list, pos, s) ==
  IF rest = <<>> THEN [bps |-> heap, activeNodes |-> done]
  ELSE LET current_line == heap[Head(rest)].line
           r == innerLoop(heap, rest, current_line, list[pos], s,
                          EmptyCandidates, <<>>)
           local_sum == squeezeDiscardables(list, s, pos)
           new == newBreakpoints(r.candidates, heap, pos, local_sum, 0)
           ids == [k \in 1..Len(new) |-> Len(heap) + k]
       IN outerLoopInsertFront(heap \o new, ids \o done \o r.kept, r.rest,
                               list, pos, s)

\* lines 376-434: the loop over the groups.  `done` is the part of the
\* active list before `active`.
RECURSIVE outerLoop(_, _, _, _, _, _)
outerLoop(heap, done, rest, list, pos, s) ==
  IF rest = <<>> THEN [bps |-> heap, activeNodes |-> done]
  ELSE LET current_line == heap[Head(rest)].line
           r == innerLoop(heap, rest, current_line, list[pos], s,
                          EmptyCandidates, <<>>)
           local_sum == squeezeDiscardables(list, s, pos)
           new == newBreakpoints(r.candidates, heap, pos, local_sum, 0)
           ids == [k \in 1..Len(new) |-> Len(heap) + k]
       IN outerLoop(heap \o new, done \o r.kept \o ids, r.rest, list, pos, s)

tryBreak(heap, activeBreakpoints, list, pos, s) ==
  outerLoop(heap, <<>>, activeBreakpoints, list, pos, s)

-----------------------------------------------------------------------------
(* prepare, and the loop body of computeFeasibleBreakpoints. *)

\* mutant: a trailing glue is not removed
prepareKeepsGlue(list) ==
  IF list = <<>> THEN list
  ELSE list \o <<infinitePenalty, par.parfillskip, Penalty(-Infinity)>>

prepare(list) ==
  IF list = <<>> THEN list
  ELSE (IF isGlue(list[Len(list)]) THEN SubSeq(list, 1, Len(list) - 1) ELSE list)
       \o <<infinitePenalty, par.parfillskip, Penalty(-Infinity)>>

\* mutant: no break is tried at a penalty
breakAttemptedGlueOnly(list, prev, i) ==
  isGlue(list[i]) /\ prev # Len(list) + 1 /\ isBox(list[prev])

\* mutant: a break is tried at every glue, whatever precedes it
breakAttemptedAnyGlue(list, prev, i) ==
  \/ isGlue(list[i])
  \/ (isPenalty(list[i]) /\ ~isForbiddenLinebreak(list[i]))

\* line 102 / line 113: is tryBreak called at position i ?
breakAttempted(list, prev, i) ==
  \/ (isGlue(list[i]) /\ prev # Len(list) + 1 /\ isBox(list[prev]))
  \/ (isPenalty(list[i]) /\ ~isForbiddenLinebreak(list[i]))

\* lines 96-112: what the node at `it` adds to `sum`
addNode(s, node) ==
  IF isBox(node) THEN [s EXCEPT !.width = @ + node.w]
  ELSE IF isGlue(node) THEN addGlue(s, node)
  ELSE IF isKern(node) THEN [s EXCEPT !.width = @ + node.w]
  ELSE s

-----------------------------------------------------------------------------
(* computeBreakpoints: the best final breakpoint and its chain. *)

\* lines 126-132: the first breakpoint of least demerits
RECURSIVE bestOf(_, _, _)
bestOf(heap, candidates, best) ==
  IF candidates = <<>> THEN best
  ELSE bestOf(heap, Tail(candidates),
              IF heap[Head(candidates)].demerits < heap[best].demerits
              THEN Head(candidates) ELSE best)

bestBreakpoint(heap, candidates) == bestOf(heap, candidates, Head(candidates))

\* mutant: the std::reverse forgotten
RECURSIVE chainOfUnreversed(_, _)
chainOfUnreversed(heap, b) ==
  IF heap[b].previous = 0 THEN <<b>>
  ELSE <<b>> \o chainOfUnreversed(heap, heap[b].previous)

\* lines 139-149: the chain that ends at b, first breakpoint first
RECURSIVE chainOf(_, _)
chainOf(heap, b) ==
  IF heap[b].previous = 0 THEN <<b>>
  ELSE Append(chainOf(heap, heap[b].previous), b)

-----------------------------------------------------------------------------
(* Line assembly: hbox, createLine, consumeDiscardable, the vertical list. *)

RECURSIVE naturalTotals(_, _)
naturalTotals(list, i) ==
  IF i > Len(list) THEN ZeroTotals
  ELSE LET rest == naturalTotals(list, i + 1)
           node == list[i]
       IN IF isGlue(node) THEN addGlue(rest, node)
          ELSE IF isPenalty(node) THEN rest
          ELSE [rest EXCEPT !.width = @ + node.w]

\* the highest order with a positive amount, -1 when there is none
activeOrder(t) ==
  IF t[Filll] > 0 THEN Filll
  ELSE IF t[Fill] > 0 THEN Fill
  ELSE IF t[Fil] > 0 THEN Fil
  ELSE IF t[Normal] > 0 THEN Normal
  ELSE -1

\* the glue setting of a list for a target width: [ratio, order]
glueSetting(list, width) ==
  LET t == naturalTotals(list, 1)
  IN IF width = t.width THEN [ratio |-> RatioZero, order |-> Normal]
     ELSE IF width > t.width
     THEN LET o == activeOrder(t.stretch)
          IN IF o = -1 THEN [ratio |-> RatioInfinity, order |-> Normal]
             ELSE [ratio |-> <<width - t.width, t.stretch[o]>>, order |-> o]
     ELSE LET o == activeOrder(t.shrink)
          IN IF o = -1 THEN [ratio |-> <<-Infinity, 1>>, order |-> Normal]
             ELSE IF width - t.width < -t.shrink[o]
             THEN [ratio |-> <<-1, 1>>, order |-> o]
             ELSE [ratio |-> <<width - t.width, t.shrink[o]>>, order |-> o]

RECURSIVE maxOver(_, _, _)
maxOver(list, field, i) ==
  IF i > Len(list) THEN 0
  ELSE LET m == maxOver(list, field, i + 1)
           v == IF isBox(list[i]) THEN list[i][field] ELSE 0
       IN IF v > m THEN v ELSE m

hbox(list, width) ==
  LET g == glueSetting(list, width)
  IN [type |-> "hbox", list |-> list, width |-> width,
      glueRatio |-> g.ratio, glueOrder |-> g.order,
      height |-> maxOver(list, "height", 1), depth |-> maxOver(list, "depth", 1)]

\* float parshape_indent = 0.f; never assigned afterwards
parshape_indent == 0

parshapeRow(linenum) ==
  IF linenum >= Len(par.parshape) THEN par.parshape[Len(par.parshape)]
  ELSE par.parshape[linenum + 1]

\* mutant: the hanging indent is not added to the target width
createLineNoHangWidth(linenum, slice) ==
  IF par.parshape # <<>>
  THEN hbox(<<Kern(parshapeRow(linenum).indent), par.leftskip>> \o slice
              \o <<par.rightskip>>,
            linelength(linenum) + parshape_indent)
  ELSE IF par.hangindent # 0 /\ hangindentAppliesToLine(linenum)
  THEN hbox((IF par.hangindent > 0 THEN <<Kern(par.hangindent)>> ELSE <<>>)
              \o <<par.leftskip>> \o slice \o <<par.rightskip>>
              \o (IF par.hangindent < 0 THEN <<Kern(Abs(par.hangindent))>> ELSE <<>>),
            linelength(linenum))
  ELSE hbox(<<par.leftskip>> \o slice \o <<par.rightskip>>, linelength(linenum))

\* mutant: the kern of a negative hanging indent is put in front as well
createLineKernInFront(linenum, slice) ==
  IF par.parshape # <<>>
  THEN hbox(<<Kern(parshapeRow(linenum).indent), par.leftskip>> \o slice
              \o <<par.rightskip>>,
            linelength(linenum) + parshape_indent)
  ELSE IF par.hangindent # 0 /\ hangindentAppliesToLine(linenum)
  THEN hbox(<<Kern(Abs(par.hangindent)), par.leftskip>> \o slice \o <<par.rightskip>>,
            linelength(linenum) + Abs(par.hangindent))
  ELSE hbox(<<par.leftskip>> \o slice \o <<par.rightskip>>, linelength(linenum))

\* createLine, given the nodes of [begin, end) as `slice`
createLine(linenum, slice) ==
  IF par.parshape # <<>>
  THEN hbox(<<Kern(parshapeRow(linenum).indent), par.leftskip>> \o slice
              \o <<par.rightskip>>,
            linelength(linenum) + parshape_indent)
  ELSE IF par.hangindent # 0 /\ hangindentAppliesToLine(linenum)
  THEN hbox((IF par.hangindent > 0 THEN <<Kern(par.hangindent)>> ELSE <<>>)
              \o <<par.leftskip>> \o slice \o <<par.rightskip>>
              \o (IF par.hangindent < 0 THEN <<Kern(Abs(par.hangindent))>> ELSE <<>>),
            linelength(linenum) + Abs(par.hangindent))
  ELSE hbox(<<par.leftskip>> \o slice \o <<par.rightskip>>, linelength(linenum))

\* consumeDiscardable: the first position from i on whose node is not
\* discardable; 0 when the loop dereferences hlist.end()
RECURSIVE consumeDiscardable(_, _)
consumeDiscardable(list, i) ==
  IF i > Len(list) THEN 0
  ELSE IF isDiscardable(list[i]) THEN consumeDiscardable(list, i + 1)
  ELSE i

\* VListBuilder::push_back: the interline glue put before `line`
interlineGlue(line) ==
  LET needed == par.baselineskip.w - par.prevdepth - line.height
  IN IF needed >= par.lineskiplimit
     THEN [par.baselineskip EXCEPT !.w = needed]
     ELSE par.lineskip

-----------------------------------------------------------------------------
(* The inputs: the lists handed to prepare and the configurations.         *)

\* Paragraph::Paragraph(), with a line width and TeX's usual penalties
DefaultPar ==
  [hsize |-> 6, tolerance |-> 1, linepenalty |-> 10, adjdemerits |-> 10000,
   hangindent |-> 0, hangafter |-> 1, parshape |-> <<>>,
   leftskip |-> Glue(0, 0, 0, Normal, Normal),
   rightskip |-> Glue(0, 0, 0, Normal, Normal),
   baselineskip |-> Glue(12, 0, 2, Normal, Normal),
   lineskip |-> Glue(3, -1, 0, Normal, Normal),
   lineskiplimit |-> 2,
   parfillskip |-> Glue(0, 0, 1, Normal, Fil),
   prevdepth |-> 0]

Geometries ==
  { [hangindent |-> 0, hangafter |-> 1, parshape |-> <<>>],
    [hangindent |-> 1, hangafter |-> -1, parshape |-> <<>>],
    [hangindent |-> 0, hangafter |-> 1,
     parshape |-> <<[indent |-> 1, length |-> 5], [indent |-> 0, length |-> 6]>>] }

\* the default rightskip, and a rightskip that stretches at order fil
\* (ragged-right / centred text)
FilRightskip == Glue(0, 0, 1, Normal, Fil)

Configs ==
  { [DefaultPar EXCEPT !.tolerance = tol, !.hangindent = g.hangindent,
                       !.hangafter = g.hangafter, !.parshape = g.parshape]
    : tol \in {1, 2}, g \in Geometries }
  \cup { [DefaultPar EXCEPT !.rightskip = FilRightskip] }

\* the node alphabet of the short lists
NodeKinds ==
  { Box(3), Glue(1, 1, 1, Normal, Normal), Kern(-1),
    Penalty(-50), Penalty(Infinity), Penalty(-Infinity) }

ShortLists == UNION { [1..k -> NodeKinds] : k \in 0..MaxLen }

\* paragraph-shaped lists: boxes with one separator between neighbours
Words == { Box(2), Box(3) }

Separators ==
  { Glue(1, 1, 1, Normal, Normal), Glue(1, 3, 1, Normal, Normal), Penalty(-50) }

interleave(ws, ss) ==
  [i \in 1..(2 * Len(ws) - 1) |->
     IF i % 2 = 1 THEN ws[(i + 1) \div 2] ELSE ss[i \div 2]]

ParagraphLists ==
  UNION { { interleave(ws, ss) : ws \in [1..n -> Words], ss \in [1..(n - 1) -> Separators] }
          : n \in 1..MaxWords }

\* lists with a kern after a break: a pair of kerned boxes split by a penalty
KernedLists ==
  { <<Glue(1, 1, 1, Normal, Normal), Box(a), Glue(1, 1, 1, Normal, Normal),
      Box(b), Penalty(-50), Kern(k)>> : a \in {3, 4}, b \in {3, 4}, k \in {-2, 1} }

InputLists == ShortLists \cup ParagraphLists \cup KernedLists

-----------------------------------------------------------------------------
(* The state machine of the paragraph builder. *)

\* the layout reader and the preprocessor are not running
TraversalIdle ==
  /\ layout = <<>>
  /\ mode = "idle"
  /\ doneAt = 0
  /\ calls = <<>>
  /\ visits = <<>>
  /\ ret = "none"

PreprocessorIdle ==
  /\ input = <<>>
  /\ output = <<>>
  /\ processed = <<>>
  /\ written = 0

\* computeBadness is not being tried on its own.  The ratios of the
\* paragraphs of the model stay far below 277, so that no conversion of
\* theirs is out of range
BadnessIdle ==
  /\ glueSetRatio = RatioZero
  /\ maxratio = 0
  /\ cast = 0
  /\ computed = <<>>

\* no math mode has been entered
MathIdle ==
  /\ m_state = "Main"
  /\ parentKind = "Horizontal"
  /\ output_routine = "given"
  /\ token = "none"
  /\ stateBefore = "Main"
  /\ mathCalls = <<>>
  /\ history = <<>>
  /\ raised = ""
  /\ left = FALSE
  /\ tokens = 0

Init ==
  /\ pc = "input"
  /\ hlist \in InputLists
  /\ hlist0 = hlist
  /\ hlistCall = <<>>
  /\ par \in Configs
  /\ parCall = par
  /\ it = 1
  /\ prevnode = 1
  /\ sum = ZeroTotals
  /\ bps = <<>>
  /\ activeNodes = <<>>
  /\ lastActive = <<>>
  /\ breakpoints = <<>>
  /\ lineStart = 1
  /\ bp = 1
  /\ result = <<>>
  /\ entry \in IF hlist = <<>> THEN {"create", "computeBreakpoints"} ELSE {"create"}
  /\ TraversalIdle
  /\ PreprocessorIdle
  /\ BadnessIdle
  /\ MathIdle

\* Paragraph::prepare(hlist)
Prepare ==
  /\ pc = "input"
  /\ hlist' = prepare(hlist)
  /\ pc' = "prepared"
  /\ UNCHANGED <<entry, traversalVars, preprocessorVars, badnessVars, mathVars>>
  /\ UNCHANGED <<hlist0, hlistCall, parCall, par, it, prevnode, sum, bps,
                 activeNodes, lastActive, breakpoints, lineStart, bp, result>>

\* mutant: create(hlist) without its test for the empty list
returnsNever(list) == FALSE

\* lines 177-178: if (hlist.empty()) return hlist;
returnsAtOnce(list) == list = <<>>

\* Paragraph::create(hlist) on an empty list returns it at once
CreateEmpty ==
  /\ pc = "prepared"
  /\ entry = "create"
  /\ returnsAtOnce(hlist)
  /\ result' = hlist
  /\ pc' = "done"
  /\ UNCHANGED <<entry, traversalVars, preprocessorVars, badnessVars, mathVars>>
  /\ UNCHANGED <<hlist, hlist0, hlistCall, parCall, par, it, prevnode, sum, bps,
                 activeNodes, lastActive, breakpoints, lineStart, bp>>

\* computeBreakpoints(hlist), called by create(hlist) or by the caller,
\* enters computeFeasibleBreakpoints, lines 86-90
FeasibleBegin ==
  /\ pc = "prepared"
  /\ entry = "computeBreakpoints" \/ ~returnsAtOnce(hlist)
  /\ hlistCall' = hlist
  /\ parCall' = par
  /\ bps' = <<Breakpoint(1, 0, 0, Tight, ZeroTotals, 0)>>
  /\ activeNodes' = <<1>>
  /\ lastActive' = <<>>
  /\ sum' = ZeroTotals
  /\ prevnode' = Len(hlist) + 1
  /\ it' = 1
  /\ pc' = "scan"
  /\ UNCHANGED <<entry, traversalVars, preprocessorVars, badnessVars, mathVars>>
  /\ UNCHANGED <<hlist, hlist0, par, breakpoints, lineStart, bp, result>>

\* one iteration of the loop of computeFeasibleBreakpoints, lines 92-119
FeasibleStep ==
  /\ pc = "scan"
  /\ it <= Len(hlist)
  /\ LET node == hlist[it]
         r == IF breakAttempted(hlist, prevnode, it)
              THEN tryBreak(bps, activeNodes, hlist, it, sum)
              ELSE [bps |-> bps, activeNodes |-> activeNodes]
     IN /\ bps' = r.bps
        /\ activeNodes' = r.activeNodes
        /\ sum' = addNode(sum, node)
  /\ lastActive' = activeNodes
  /\ prevnode' = it
  /\ it' = it + 1
  /\ UNCHANGED <<entry, traversalVars, preprocessorVars, badnessVars, mathVars>>
  /\ UNCHANGED <<pc, hlist, hlist0, hlistCall, parCall, par, breakpoints,
                 lineStart, bp, result>>

\* mutant: the emptiness test is off by one
computeBreakpointsOffByOne(heap, candidates) ==
  IF Len(candidates) <= 1
  THEN [failed |-> TRUE, chain |-> <<>>]
  ELSE [failed |-> FALSE, chain |-> chainOf(heap, bestBreakpoint(heap, candidates))]

\* what computeBreakpoints(hlist) returns or throws, lines 156-159
computeBreakpoints(heap, candidates) ==
  IF Len(candidates) = 0
  THEN [failed |-> TRUE, chain |-> <<>>]
  ELSE [failed |-> FALSE, chain |-> chainOf(heap, bestBreakpoint(heap, candidates))]

\* the loop of computeFeasibleBreakpoints ends; computeBreakpoints throws
\* or returns the chain of the best active breakpoint
ComputeBreakpoints ==
  /\ pc = "scan"
  /\ it = Len(hlist) + 1
  /\ LET r == computeBreakpoints(bps, activeNodes)
     IN /\ breakpoints' = r.chain
        /\ pc' = IF r.failed THEN "failed" ELSE "chosen"
  /\ UNCHANGED <<entry, traversalVars, preprocessorVars, badnessVars, mathVars>>
  /\ UNCHANGED <<hlist, hlist0, hlistCall, parCall, par, it, prevnode, sum, bps,
                 activeNodes, lastActive, lineStart, bp, result>>

\* create(hlist, breakpoints), lines 187-195
CreateBegin ==
  /\ pc = "chosen"
  /\ IF hlist = <<>> \/ Len(breakpoints) < 2
     THEN /\ pc' = "done"
          /\ UNCHANGED <<lineStart, bp>>
     ELSE /\ pc' = "create"
          /\ lineStart' = 1
          /\ bp' = 2
  /\ result' = <<>>
  /\ UNCHANGED <<entry, traversalVars, preprocessorVars, badnessVars, mathVars>>
  /\ UNCHANGED <<hlist, hlist0, hlistCall, parCall, par, it, prevnode, sum, bps,
                 activeNodes, lastActive, breakpoints>>

\* one iteration of the loop of create, lines 197-208.  createLine on a
\* range whose begin lies after its end, and consumeDiscardable reading
\* *hlist.end(), are undefined behaviour: the program crashes, or goes on in
\* a state nothing is known about (pc = "undefined"; the line is then kept
\* with an empty slice and the iterator at hlist.end()).
CreateLine ==
  /\ pc = "create"
  /\ LET b == bps[breakpoints[bp]]
         line == createLine(b.line - 1,
                            IF lineStart <= b.position
                            THEN SubSeq(hlist, lineStart, b.position - 1)
                            ELSE <<>>)
         next == IF bp + 1 <= Len(breakpoints)
                 THEN consumeDiscardable(hlist, b.position)
                 ELSE b.position
         undefined == lineStart > b.position \/ next = 0
     IN /\ result' = result \o <<interlineGlue(line), line>>
        /\ par' = [par EXCEPT !.prevdepth = line.depth]
        /\ lineStart' = IF next = 0 THEN Len(hlist) + 1 ELSE next
        /\ bp' = bp + 1
        /\ IF undefined
           THEN pc' \in {"crashed", "undefined"}
           ELSE pc' = IF bp + 1 <= Len(breakpoints) THEN "create" ELSE "done"
  /\ UNCHANGED <<entry, traversalVars, preprocessorVars, badnessVars, mathVars>>
  /\ UNCHANGED <<hlist, hlist0, hlistCall, parCall, it, prevnode, sum, bps,
                 activeNodes, lastActive, breakpoints>>

Next ==
  \/ Prepare
  \/ CreateEmpty
  \/ FeasibleBegin
  \/ FeasibleStep
  \/ ComputeBreakpoints
  \/ CreateBegin
  \/ CreateLine

Spec == Init /\ [][Next]_vars

\* The paragraph builder with tolerance 0, on the short and the kerned lists.
Tolerance0Configs ==
  { [DefaultPar EXCEPT !.tolerance = 0, !.hangindent = g.hangindent,
                       !.hangafter = g.hangafter, !.parshape = g.parshape]
    : g \in Geometries }

InitTolerance0 ==
  /\ pc = "input"
  /\ hlist \in ShortLists \cup KernedLists
  /\ hlist0 = hlist
  /\ hlistCall = <<>>
  /\ par \in Tolerance0Configs
  /\ parCall = par
  /\ it = 1
  /\ prevnode = 1
  /\ sum = ZeroTotals
  /\ bps = <<>>
  /\ activeNodes = <<>>
  /\ lastActive = <<>>
  /\ breakpoints = <<>>
  /\ lineStart = 1
  /\ bp = 1
  /\ result = <<>>
  /\ entry \in IF hlist = <<>> THEN {"create", "computeBreakpoints"} ELSE {"create"}
  /\ TraversalIdle
  /\ PreprocessorIdle
  /\ BadnessIdle
  /\ MathIdle

SpecTolerance0 == InitTolerance0 /\ [][Next]_vars

\* The paragraph builder under every combination of hanging indent,
\* hangafter and parshape, on paragraphs of equal words.
GeometryConfigs ==
  { [DefaultPar EXCEPT !.tolerance = 2, !.hangindent = hi, !.hangafter = ha,
                       !.parshape = ps]
    : hi \in -2..2, ha \in -2..2,
      ps \in { <<>>, <<[indent |-> 1, length |-> 5]>>,
               <<[indent |-> 1, length |-> 5], [indent |-> 0, length |-> 6]>> } }

wordsList(n) ==
  [i \in 1..(2 * n - 1) |-> IF i % 2 = 1 THEN Box(2) ELSE Glue(1, 1, 1, Normal, Normal)]

GeometryLists == { <<>> } \cup { wordsList(n) : n \in 1..MaxGeometryWords }

InitGeometry ==
  /\ pc = "input"
  /\ hlist \in GeometryLists
  /\ hlist0 = hlist
  /\ hlistCall = <<>>
  /\ par \in GeometryConfigs
  /\ parCall = par
  /\ it = 1
  /\ prevnode = 1
  /\ sum = ZeroTotals
  /\ bps = <<>>
  /\ activeNodes = <<>>
  /\ lastActive = <<>>
  /\ breakpoints = <<>>
  /\ lineStart = 1
  /\ bp = 1
  /\ result = <<>>
  /\ entry = "create"
  /\ TraversalIdle
  /\ PreprocessorIdle
  /\ BadnessIdle
  /\ MathIdle

SpecGeometry == InitGeometry /\ [][Next]_vars

\* The paragraph builder on paragraphs of words of two widths, long enough
\* for chains of three lines that differ in the classes of their lines, with
\* a large and a small positive adjdemerits.
AdjacencyConfigs ==
  { [DefaultPar EXCEPT !.hsize = hs, !.tolerance = tol, !.adjdemerits = adj]
    : hs \in {6, 7}, tol \in {1, 2}, adj \in {10000, 50} }

AdjacencyLists ==
  { <<>> } \cup
  UNION { { interleave(ws, [i \in 1..(n - 1) |-> Glue(1, 1, 1, Normal, Normal)])
            : ws \in [1..n -> Words] } : n \in 1..MaxAdjacencyWords }

InitAdjacency ==
  /\ pc = "input"
  /\ hlist \in AdjacencyLists
  /\ hlist0 = hlist
  /\ hlistCall = <<>>
  /\ par \in AdjacencyConfigs
  /\ parCall = par
  /\ it = 1
  /\ prevnode = 1
  /\ sum = ZeroTotals
  /\ bps = <<>>
  /\ activeNodes = <<>>
  /\ lastActive = <<>>
  /\ breakpoints = <<>>
  /\ lineStart = 1
  /\ bp = 1
  /\ result = <<>>
  /\ entry = "create"
  /\ TraversalIdle
  /\ PreprocessorIdle
  /\ BadnessIdle
  /\ MathIdle

SpecAdjacency == InitAdjacency /\ [][Next]_vars

\* The paragraph builder on words separated by a glue or by a penalty, the
\* penalties at and next to the bounds -10000 and 10000 among them, with a
\* rigid and with a fil rightskip and two values of linepenalty.
PenaltyConfigs ==
  { [DefaultPar EXCEPT !.tolerance = 2, !.linepenalty = lp, !.rightskip = rs]
    : lp \in {10, 3}, rs \in {Glue(0, 0, 0, Normal, Normal), FilRightskip} }

PenaltySeparators ==
  { Glue(1, 1, 1, Normal, Normal), Penalty(50), Penalty(-50),
    Penalty(9999), Penalty(-9999), Penalty(-Infinity) }

PenaltyLists ==
  { <<>> } \cup
  UNION { { interleave(ws, ss) : ws \in [1..n -> Words],
                                 ss \in [1..(n - 1) -> PenaltySeparators] }
          : n \in 1..MaxPenaltyWords }

InitPenalties ==
  /\ pc = "input"
  /\ hlist \in PenaltyLists
  /\ hlist0 = hlist
  /\ hlistCall = <<>>
  /\ par \in PenaltyConfigs
  /\ parCall = par
  /\ it = 1
  /\ prevnode = 1
  /\ sum = ZeroTotals
  /\ bps = <<>>
  /\ activeNodes = <<>>
  /\ lastActive = <<>>
  /\ breakpoints = <<>>
  /\ lineStart = 1
  /\ bp = 1
  /\ result = <<>>
  /\ entry = "create"
  /\ TraversalIdle
  /\ PreprocessorIdle
  /\ BadnessIdle
  /\ MathIdle

SpecPenalties == InitPenalties /\ [][Next]_vars

-----------------------------------------------------------------------------
(* The layout reader (layoutreader.h).  A box tree is a record; a list box *)
(* holds the list of its children.  Coordinates and glue ratios of the     *)
(* trees are integers.  A running read_hbox_* / read_vbox_* call is a      *)
(* frame: its box, the path of that box from the root, the index `i` of    *)
(* the node its loop is at, and its `pos`.                                 *)

Rule(width, hght, dpth) ==
  [type |-> "rule", w |-> width, stretch |-> 0, shrink |-> 0,
   stretchOrder |-> Normal, shrinkOrder |-> Normal, height |-> hght, depth |-> dpth]

RECURSIVE sumOver(_, _, _)
sumOver(list, field, i) ==
  IF i > Len(list) THEN 0 ELSE list[i][field] + sumOver(list, field, i + 1)

\* an hbox of natural size around `list`
HBox(list, ratio, glueorder, shift) ==
  [type |-> "hbox", w |-> sumOver(list, "w", 1), stretch |-> 0, shrink |-> 0,
   stretchOrder |-> Normal, shrinkOrder |-> Normal,
   height |-> maxOver(list, "height", 1), depth |-> maxOver(list, "depth", 1),
   list |-> list, glueRatio |-> ratio, glueOrder |-> glueorder, shiftAmount |-> shift]

\* a vbox of natural size around `list`
VBox(list, ratio, glueorder, shift) ==
  [type |-> "vbox", w |-> maxOver(list, "w", 1), stretch |-> 0, shrink |-> 0,
   stretchOrder |-> Normal, shrinkOrder |-> Normal,
   height |-> sumOver(list, "height", 1) + sumOver(list, "depth", 1), depth |-> 0,
   list |-> list, glueRatio |-> ratio, glueOrder |-> glueorder, shiftAmount |-> shift]

isRule(box) == box.type = "rule"
isHBox(box) == box.type = "hbox"
isVBox(box) == box.type = "vbox"

\* mutant: a vbox is not taken for a list box
isListBoxHOnly(box) == isHBox(box)

isListBox(box) == isHBox(box) \/ isVBox(box)

\* the visitor: what its n-th call returns.  A full-traversal visitor
\* returns nothing, which is "Continue" here.
reader(n) == IF mode = "partial" /\ n = doneAt THEN "Done" ELSE "Continue"

\* mutant: a shrinking box sets its glue by the stretch
glueAdvanceByStretch(box, glue) ==
  glue.w + (IF box.glueOrder = glue.stretchOrder
            THEN box.glueRatio * glue.stretch ELSE 0)

\* lines 85-100: the advance of the cursor over a glue of `box`
glueAdvance(box, glue) ==
  glue.w + (IF box.glueRatio < 0
            THEN IF box.glueOrder = glue.shrinkOrder
                 THEN box.glueRatio * glue.shrink ELSE 0
            ELSE IF box.glueOrder = glue.stretchOrder
                 THEN box.glueRatio * glue.stretch ELSE 0)

\* the frame of a call of read_hbox_* / read_vbox_* on `box` at (x, y),
\* after the call of the visitor on the box itself
Frame(box, path, x, y) ==
  [layout |-> box, path |-> path, i |-> 1, x |-> x,
   y |-> IF isVBox(box) THEN y - box.height ELSE y]

\* the frame, its loop moved over the node at i, a kern, a glue or a penalty
overNode(f, node) ==
  LET by == IF node.type = "kern" THEN node.w
            ELSE IF isGlue(node) THEN glueAdvance(f.layout, node)
            ELSE 0
  IN IF isHBox(f.layout) THEN [f EXCEPT !.i = @ + 1, !.x = @ + by]
     ELSE [f EXCEPT !.i = @ + 1, !.y = @ + by]

\* mutant: a vbox reads a child from the top of the child
beforeBoxAtTop(f, box) == f

\* the cursor of the frame before the child box at i is read: a vbox adds
\* the height of the child first
beforeBox(f, box) ==
  IF isHBox(f.layout) THEN f ELSE [f EXCEPT !.y = @ + box.height]

\* the frame (as left by beforeBox) once the child box at i has been read
afterBox(f, box) ==
  IF isHBox(f.layout) THEN [f EXCEPT !.i = @ + 1, !.x = @ + box.w]
  ELSE [f EXCEPT !.i = @ + 1, !.y = @ + box.depth]

\* where a child box is read, the cursor of the frame being at (f.x, f.y):
\* a list box is shifted, across the direction of the list
childPos(f, box) ==
  IF ~isListBox(box) THEN [x |-> f.x, y |-> f.y]
  ELSE IF isHBox(f.layout) THEN [x |-> f.x, y |-> f.y + box.shiftAmount]
  ELSE [x |-> f.x + box.shiftAmount, y |-> f.y]

Visit(path, x, y) == [path |-> path, x |-> x, y |-> y]

\* mutant: a vbox goes on with its next node when a call it made returned Done
returnsDoneHBoxOnly(box, r) == IF isVBox(box) THEN "Continue" ELSE r

\* if (read_hbox_partial(...)) return Done; and the same for read_vbox_partial:
\* what the call on `box` returns at once when a call it made returned r
returnsDone(box, r) == r

replaceTop(stack, f) == [stack EXCEPT ![Len(stack)] = f]

\* read(reader, layout): layout_reader_impl<...>::read at Pos(0, height)
Read ==
  /\ mode \in {"full", "partial"}
  /\ visits = <<>>
  /\ visits' = <<Visit(<<>>, 0, layout.height)>>
  /\ IF isListBox(layout) /\ reader(1) = "Continue"
     THEN calls' = <<Frame(layout, <<>>, 0, layout.height)>>
     ELSE calls' = <<>>
  /\ ret' = IF reader(1) = "Done" THEN "Done" ELSE "none"
  /\ UNCHANGED <<layout, mode, doneAt>>
  /\ UNCHANGED <<paragraphVars, preprocessorVars, badnessVars, mathVars>>

\* one iteration of the loop of the innermost call.  The loops of
\* read_hbox_full, read_vbox_full, read_hbox_partial and read_vbox_partial
\* differ in the axis they advance along and in the use of what the visitor
\* and the inner calls return: the frame's box gives the axis, and `reader`
\* answers "Continue" to every call of a full traversal.
ReadStep ==
  /\ calls # <<>>
  /\ ret = "none"
  /\ LET f == calls[Len(calls)]
     IN /\ f.i <= Len(f.layout.list)
        /\ LET node == f.layout.list[f.i]
               g == beforeBox(f, node)
               at == childPos(g, node)
               answer == reader(Len(visits) + 1)
           IN IF ~isBox(node)
              THEN /\ calls' = replaceTop(calls, overNode(f, node))
                   /\ UNCHANGED <<visits, ret>>
              ELSE /\ visits' = Append(visits, Visit(Append(f.path, f.i), at.x, at.y))
                   /\ IF isListBox(node)
                      THEN IF answer = "Continue"
                           THEN /\ calls' = Append(replaceTop(calls, g),
                                                   Frame(node, Append(f.path, f.i), at.x, at.y))
                                /\ ret' = "none"
                           ELSE IF returnsDone(f.layout, answer) = "Done"
                           THEN /\ calls' = replaceTop(calls, g)
                                /\ ret' = "Done"
                           ELSE /\ calls' = replaceTop(calls, afterBox(g, node))
                                /\ ret' = "none"
                      ELSE IF answer = "Continue"
                           THEN /\ calls' = replaceTop(calls, afterBox(g, node))
                                /\ ret' = "none"
                           ELSE /\ calls' = replaceTop(calls, g)
                                /\ ret' = "Done"
  /\ UNCHANGED <<layout, mode, doneAt>>
  /\ UNCHANGED <<paragraphVars, preprocessorVars, badnessVars, mathVars>>

\* the loop of the innermost call has ended: it returns (Continue), and its
\* caller moves its cursor over the box
ReadReturn ==
  /\ calls # <<>>
  /\ ret = "none"
  /\ LET f == calls[Len(calls)]
         outer == SubSeq(calls, 1, Len(calls) - 1)
     IN /\ f.i > Len(f.layout.list)
        /\ calls' = IF outer = <<>> THEN outer
                    ELSE replaceTop(outer, afterBox(outer[Len(outer)], f.layout))
  /\ UNCHANGED <<layout, mode, doneAt, visits, ret>>
  /\ UNCHANGED <<paragraphVars, preprocessorVars, badnessVars, mathVars>>

\* the innermost call returns Done; its caller, if any, returns Done in
\* turn at its next step
ReadHalt ==
  /\ calls # <<>>
  /\ ret = "Done"
  /\ LET f == calls[Len(calls)]
         outer == SubSeq(calls, 1, Len(calls) - 1)
     IN IF outer = <<>> \/ returnsDone(outer[Len(outer)].layout, "Done") = "Done"
        THEN /\ calls' = outer
             /\ ret' = "Done"
        ELSE /\ calls' = replaceTop(outer, afterBox(outer[Len(outer)], f.layout))
             /\ ret' = "none"
  /\ UNCHANGED <<layout, mode, doneAt, visits>>
  /\ UNCHANGED <<paragraphVars, preprocessorVars, badnessVars, mathVars>>

NextTraversal == Read \/ ReadStep \/ ReadReturn \/ ReadHalt

\* The four functions again, each from its own lines and as a function of
\* the box: the calls of the visitor a call makes, in order.  `path` is the
\* place of the box in the tree and (x, y) is `pos`; the partial functions
\* are given the number of calls the visitor has answered so far (`made`)
\* and the call at which it answers Done (`d`, 0 for never), and tell
\* whether they return Done.

\* mutant: what an inner call or the visitor returns is not looked at
returnsAtDoneNever(r) == FALSE

\* if (...) return PartialLayoutReader::Done;
returnsAtDone(r) == r

RECURSIVE read_hbox_full(_, _, _, _)
RECURSIVE read_vbox_full(_, _, _, _)
RECURSIVE hboxNodesFull(_, _, _, _, _)
RECURSIVE vboxNodesFull(_, _, _, _, _)
RECURSIVE read_hbox_partial(_, _, _, _, _, _)
RECURSIVE read_vbox_partial(_, _, _, _, _, _)
RECURSIVE hboxNodesPartial(_, _, _, _, _, _, _)
RECURSIVE vboxNodesPartial(_, _, _, _, _, _, _)

\* lines 49-101: the loop of read_hbox_full from the node at i on
hboxNodesFull(lbox, path, i, x, y) ==
  IF i > Len(lbox.list) THEN <<>>
  ELSE LET node == lbox.list[i]
           at == Append(path, i)
       IN IF isBox(node)
          THEN (IF isRule(node) THEN <<Visit(at, x, y)>>
                ELSE IF isListBox(node)
                THEN IF isHBox(node)
                     THEN read_hbox_full(node, at, x, y + node.shiftAmount)
                     ELSE read_vbox_full(node, at, x, y + node.shiftAmount)
                ELSE <<Visit(at, x, y)>>)
               \o hboxNodesFull(lbox, path, i + 1, x + node.w, y)
          ELSE IF isKern(node)
          THEN hboxNodesFull(lbox, path, i + 1, x + node.w, y)
          ELSE IF isGlue(node)
          THEN hboxNodesFull(lbox, path, i + 1,
                             x + node.w
                               + (IF lbox.glueRatio < 0
                                  THEN IF lbox.glueOrder = node.shrinkOrder
                                       THEN lbox.glueRatio * node.shrink ELSE 0
                                  ELSE IF lbox.glueOrder = node.stretchOrder
                                       THEN lbox.glueRatio * node.stretch ELSE 0),
                             y)
          ELSE hboxNodesFull(lbox, path, i + 1, x, y)

\* lines 44-102
read_hbox_full(lbox, path, x, y) ==
  <<Visit(path, x, y)>> \o hboxNodesFull(lbox, path, 1, x, y)

\* lines 111-165: the loop of read_vbox_full from the node at i on
vboxNodesFull(lbox, path, i, x, y) ==
  IF i > Len(lbox.list) THEN <<>>
  ELSE LET node == lbox.list[i]
           at == Append(path, i)
       IN IF isBox(node)
          THEN LET below == y + node.height
               IN (IF isRule(node) THEN <<Visit(at, x, below)>>
                   ELSE IF isListBox(node)
                   THEN IF isHBox(node)
                        THEN read_hbox_full(node, at, x + node.shiftAmount, below)
                        ELSE read_vbox_full(node, at, x + node.shiftAmount, below)
                   ELSE <<Visit(at, x, below)>>)
                  \o vboxNodesFull(lbox, path, i + 1, x, below + node.depth)
          ELSE IF isKern(node)
          THEN vboxNodesFull(lbox, path, i + 1, x, y + node.w)
          ELSE IF isGlue(node)
          THEN vboxNodesFull(lbox, path, i + 1, x,
                             y + node.w
                               + (IF lbox.glueRatio < 0
                                  THEN IF lbox.glueOrder = node.shrinkOrder
                                       THEN lbox.glueRatio * node.shrink ELSE 0
                                  ELSE IF lbox.glueOrder = node.stretchOrder
                                       THEN lbox.glueRatio * node.stretch ELSE 0))
          ELSE vboxNodesFull(lbox, path, i + 1, x, y)

\* lines 104-166
read_vbox_full(lbox, path, x, y) ==
  <<Visit(path, x, y)>> \o vboxNodesFull(lbox, path, 1, x, y - lbox.height)

\* one call of the visitor of a partial traversal, the (made + 1)-th
visitPartial(at, x, y, made, d) ==
  [visits |-> <<Visit(at, x, y)>>, done |-> made + 1 = d]

\* lines 174-232: the loop of read_hbox_partial from the node at i on
hboxNodesPartial(lbox, path, i, x, y, made, d) ==
  IF i > Len(lbox.list) THEN [visits |-> <<>>, done |-> FALSE]
  ELSE LET node == lbox.list[i]
           at == Append(path, i)
       IN IF isBox(node)
          THEN LET r == IF isRule(node) THEN visitPartial(at, x, y, made, d)
                        ELSE IF isListBox(node)
                        THEN IF isHBox(node)
                             THEN read_hbox_partial(node, at, x, y + node.shiftAmount,
                                                    made, d)
                             ELSE read_vbox_partial(node, at, x, y + node.shiftAmount,
                                                    made, d)
                        ELSE visitPartial(at, x, y, made, d)
               IN IF returnsAtDone(r.done) THEN [visits |-> r.visits, done |-> TRUE]
                  ELSE LET more == hboxNodesPartial(lbox, path, i + 1, x + node.w, y,
                                                    made + Len(r.visits), d)
                       IN [visits |-> r.visits \o more.visits, done |-> more.done]
          ELSE IF isKern(node)
          THEN hboxNodesPartial(lbox, path, i + 1, x + node.w, y, made, d)
          ELSE IF isGlue(node)
          THEN hboxNodesPartial(lbox, path, i + 1,
                                x + node.w
                                  + (IF lbox.glueRatio < 0
                                     THEN IF lbox.glueOrder = node.shrinkOrder
                                          THEN lbox.glueRatio * node.shrink ELSE 0
                                     ELSE IF lbox.glueOrder = node.stretchOrder
                                          THEN lbox.glueRatio * node.stretch ELSE 0),
                                y, made, d)
          ELSE hboxNodesPartial(lbox, path, i + 1, x, y, made, d)

\* lines 168-233
read_hbox_partial(lbox, path, x, y, made, d) ==
  LET r == visitPartial(path, x, y, made, d)
  IN IF returnsAtDone(r.done) THEN [visits |-> r.visits, done |-> TRUE]
     ELSE LET more == hboxNodesPartial(lbox, path, 1, x, y, made + 1, d)
          IN [visits |-> r.visits \o more.visits, done |-> more.done]

\* lines 243-301: the loop of read_vbox_partial from the node at i on
vboxNodesPartial(lbox, path, i, x, y, made, d) ==
  IF i > Len(lbox.list) THEN [visits |-> <<>>, done |-> FALSE]
  ELSE LET node == lbox.list[i]
           at == Append(path, i)
       IN IF isBox(node)
          THEN LET below == y + node.height
                   r == IF isRule(node) THEN visitPartial(at, x, below, made, d)
                        ELSE IF isListBox(node)
                        THEN IF isHBox(node)
                             THEN read_hbox_partial(node, at, x + node.shiftAmount,
                                                    below, made, d)
                             ELSE read_vbox_partial(node, at, x + node.shiftAmount,
                                                    below, made, d)
                        ELSE visitPartial(at, x, below, made, d)
               IN IF returnsAtDone(r.done) THEN [visits |-> r.visits, done |-> TRUE]
                  ELSE LET more == vboxNodesPartial(lbox, path, i + 1, x,
                                                    below + node.depth,
                                                    made + Len(r.visits), d)
                       IN [visits |-> r.visits \o more.visits, done |-> more.done]
          ELSE IF isKern(node)
          THEN vboxNodesPartial(lbox, path, i + 1, x, y + node.w, made, d)
          ELSE IF isGlue(node)
          THEN vboxNodesPartial(lbox, path, i + 1, x,
                                y + node.w
                                  + (IF lbox.glueRatio < 0
                                     THEN IF lbox.glueOrder = node.shrinkOrder
                                          THEN lbox.glueRatio * node.shrink ELSE 0
                                     ELSE IF lbox.glueOrder = node.stretchOrder
                                          THEN lbox.glueRatio * node.stretch ELSE 0),
                                made, d)
          ELSE vboxNodesPartial(lbox, path, i + 1, x, y, made, d)

\* lines 235-304
read_vbox_partial(lbox, path, x, y, made, d) ==
  LET r == visitPartial(path, x, y, made, d)
  IN IF returnsAtDone(r.done) THEN [visits |-> r.visits, done |-> TRUE]
     ELSE LET more == vboxNodesPartial(lbox, path, 1, x, y - lbox.height,
                                       made + 1, d)
          IN [visits |-> r.visits \o more.visits, done |-> more.done]

\* read(reader, layout) with a visitor that returns void: lines 310-338 at
\* Pos(0, height)
readFull(box) ==
  IF isRule(box) THEN <<Visit(<<>>, 0, box.height)>>
  ELSE IF isListBox(box)
  THEN IF isHBox(box) THEN read_hbox_full(box, <<>>, 0, box.height)
       ELSE read_vbox_full(box, <<>>, 0, box.height)
  ELSE <<Visit(<<>>, 0, box.height)>>

\* read(reader, layout) with a visitor that returns bool and answers Done
\* at its d-th call: lines 340-368 at Pos(0, height)
readPartial(box, d) ==
  IF isRule(box) THEN <<Visit(<<>>, 0, box.height)>>
  ELSE IF isListBox(box)
  THEN IF isHBox(box) THEN read_hbox_partial(box, <<>>, 0, box.height, 0, d).visits
       ELSE read_vbox_partial(box, <<>>, 0, box.height, 0, d).visits
  ELSE <<Visit(<<>>, 0, box.height)>>

\* the paragraph builder is not running
ParagraphIdle ==
  /\ pc = "idle"
  /\ hlist = <<>>
  /\ hlist0 = <<>>
  /\ hlistCall = <<>>
  /\ par = DefaultPar
  /\ parCall = DefaultPar
  /\ it = 1
  /\ prevnode = 1
  /\ sum = ZeroTotals
  /\ bps = <<>>
  /\ activeNodes = <<>>
  /\ lastActive = <<>>
  /\ breakpoints = <<>>
  /\ lineStart = 1
  /\ bp = 1
  /\ result = <<>>
  /\ entry = "create"

\* the box trees: leaves, boxes of leaves, boxes of those, and roots
Leaves == { Box(3), Rule(2, 1, 1) }

Spacers == { Kern(1), Glue(1, 1, 1, Normal, Normal), Penalty(0) }

\* a list box of the given kind; an hbox is stretched, a vbox is shrunk and shifted
ListBox(kind, list) ==
  IF kind = "hbox" THEN HBox(list, 2, Normal, 0) ELSE VBox(list, -1, Normal, 1)

Level1 ==
  { ListBox(kind, list) :
      kind \in {"hbox", "vbox"},
      list \in { <<>>, <<Box(3)>>, <<Rule(2, 1, 1), Glue(1, 1, 1, Normal, Normal)>> } }

Level2 ==
  { ListBox(kind, <<a, b>>) :
      kind \in {"hbox", "vbox"},
      a \in Level1 \cup { Box(3) },
      b \in { Rule(2, 1, 1), Kern(1), ListBox("hbox", <<Box(3)>>), ListBox("vbox", <<>>) } }

Layouts ==
  Leaves \cup Level1
  \cup { ListBox(kind, <<a, b>>) :
           kind \in {"hbox", "vbox"},
           a \in Level2 \cup Spacers,
           b \in Level1 \cup { Box(3) } }

\* the number of boxes of a tree
RECURSIVE boxCount(_)
RECURSIVE boxCountOf(_, _)
boxCountOf(list, i) ==
  IF i > Len(list) THEN 0
  ELSE (IF isBox(list[i]) THEN boxCount(list[i]) ELSE 0) + boxCountOf(list, i + 1)

boxCount(box) == 1 + (IF box.type \in {"hbox", "vbox"} THEN boxCountOf(box.list, 1) ELSE 0)

InitTraversal ==
  /\ ParagraphIdle
  /\ PreprocessorIdle
  /\ BadnessIdle
  /\ MathIdle
  /\ layout \in Layouts
  /\ mode \in {"full", "partial"}
  /\ doneAt \in IF mode = "partial" THEN 0..boxCount(layout) ELSE {0}
  /\ calls = <<>>
  /\ visits = <<>>
  /\ ret = "none"

SpecTraversal == InitTraversal /\ [][NextTraversal]_vars

\* The layout reader on boxes of three nodes around a kern or a glue, the
\* outer box stretched or shrunk at order normal or fil, the inner boxes
\* shifted or not.
PositionGlues ==
  { Kern(1), Glue(1, 2, 3, Normal, Fil), Glue(1, 2, 3, Fil, Normal) }

InnerBoxes ==
  { HBox(<<Rule(2, 1, 1), Glue(1, 1, 1, Normal, Normal), Box(3)>>, 2, Normal, sh)
      : sh \in {0, 1} }
  \cup { VBox(<<Rule(2, 1, 1), Glue(1, 1, 1, Normal, Normal), Box(3)>>, -1, Normal, sh)
           : sh \in {0, -1} }

PositionLayouts ==
  { HBox(<<a, g, b>>, ratio, o, 0)
      : a \in InnerBoxes \cup Leaves, g \in PositionGlues,
        b \in InnerBoxes \cup { Box(3) }, ratio \in {2, -1}, o \in {Normal, Fil} }
  \cup
  { VBox(<<a, g, b>>, ratio, o, 0)
      : a \in InnerBoxes \cup Leaves, g \in PositionGlues,
        b \in InnerBoxes \cup { Box(3) }, ratio \in {2, -1}, o \in {Normal, Fil} }
  \cup
  { VBox(<<g, a>>, 2, Normal, 0) : g \in PositionGlues, a \in InnerBoxes \cup Leaves }

InitPositions ==
  /\ ParagraphIdle
  /\ PreprocessorIdle
  /\ BadnessIdle
  /\ MathIdle
  /\ layout \in PositionLayouts
  /\ mode \in {"full", "partial"}
  /\ doneAt \in IF mode = "partial" THEN 0..boxCount(layout) ELSE {0}
  /\ calls = <<>>
  /\ visits = <<>>
  /\ ret = "none"

SpecPositions == InitPositions /\ [][NextTraversal]_vars

-----------------------------------------------------------------------------
(* The preprocessor (preprocessor.h): write, with process and advance as   *)
(* section 4.D describes them.  A token is a record: `id` tells the tokens *)
(* apart (<<n>> is the n-th token written, id \o <<k>> the k-th token of   *)
(* the expansion of the token id), `cs` is what the token is, and `behind` *)
(* is the set of the ids of the tokens that were pending when it was       *)
(* written (history).                                                      *)

Token(id, cs, behind) == [id |-> id, cs |-> cs, behind |-> behind]

\* what can be written: a character, a macro that expands to two
\* characters, and a macro that expands to that macro and a character
TokenKinds == { "a", "\\m", "\\n" }

\* the replacement text of a macro
replacementText(cs) ==
  IF cs = "\\m" THEN <<"a", "a">>
  ELSE IF cs = "\\n" THEN <<"\\m", "a">>
  ELSE <<>>

\* Macro::expand: the tokens a macro token expands to
expand(tok) ==
  LET text == replacementText(tok.cs)
  IN [k \in 1..Len(text) |-> Token(Append(tok.id, k), text[k], {})]

\* Preprocessor::process: a macro is expanded and the result is put at the
\* head of the input; any other token goes to the output
process(tok, pre) ==
  IF replacementText(tok.cs) # <<>>
  THEN [pre EXCEPT !.input = expand(tok) \o @, !.processed = Append(@, tok)]
  ELSE [pre EXCEPT !.output = Append(@, tok), !.processed = Append(@, tok)]

\* mutant: a token written while others are pending is put before them
writeAtFront(t, pre) ==
  IF pre.input = <<>> THEN process(t, pre)
  ELSE [pre EXCEPT !.input = <<t>> \o @]

\* Preprocessor::write(Token t)
write(t, pre) ==
  IF pre.input = <<>> THEN process(t, pre)
  ELSE [pre EXCEPT !.input = Append(@, t)]

\* the preprocessor as a record
preprocessor == [input |-> input, output |-> output, processed |-> processed]

\* the caller writes a token
Write ==
  /\ written < MaxWritten
  /\ \E cs \in TokenKinds :
       LET t == Token(<<written + 1>>, cs, { input[k].id : k \in 1..Len(input) })
           after == write(t, preprocessor)
       IN /\ input' = after.input
          /\ output' = after.output
          /\ processed' = after.processed
  /\ written' = written + 1
  /\ UNCHANGED <<paragraphVars, traversalVars, badnessVars, mathVars>>

\* Preprocessor::advance: the first pending token is taken and processed
Advance ==
  /\ input # <<>>
  /\ LET after == process(Head(input), [preprocessor EXCEPT !.input = Tail(@)])
     IN /\ input' = after.input
        /\ output' = after.output
        /\ processed' = after.processed
  /\ UNCHANGED written
  /\ UNCHANGED <<paragraphVars, traversalVars, badnessVars, mathVars>>

NextPreprocessor == Write \/ Advance

InitPreprocessor ==
  ParagraphIdle /\ TraversalIdle /\ PreprocessorIdle /\ BadnessIdle /\ MathIdle

SpecPreprocessor == InitPreprocessor /\ [][NextPreprocessor]_vars

-----------------------------------------------------------------------------
(* computeBadness on its own: the call of line 400, for the ratios tryBreak *)
(* lets through at line 398, the sentinel (float) Penalty::Infinity among   *)
(* them when the tolerance is 10000.                                        *)

RatioInputs ==
  { <<n, d>> : n \in -MaxDenominator..(5 * MaxDenominator), d \in 1..MaxDenominator }
  \cup { <<n, 1>> : n \in { 100, 200, 277, 278, 1000, Infinity } }

\* TeX's tolerance of 200, a strict one, and the one that admits the sentinel
Tolerances == { 2, 200, Infinity }

\* what (int) of a double of 2^31 or more leaves: the "integer indefinite"
\* value of the x86 conversion, or the largest int of a saturating one
CastOutcomes == { IntMin, IntMax }

ComputeBadness ==
  /\ computed = <<>>
  /\ ~RatioLess(glueSetRatio, -1)
  /\ RatioLeq(glueSetRatio, maxratio)
  /\ computed' = <<computeBadness(glueSetRatio)>>
  /\ UNCHANGED <<glueSetRatio, maxratio, cast>>
  /\ UNCHANGED <<paragraphVars, traversalVars, preprocessorVars, mathVars>>

NextBadness == ComputeBadness

InitBadness ==
  /\ ParagraphIdle
  /\ TraversalIdle
  /\ PreprocessorIdle
  /\ glueSetRatio \in RatioInputs
  /\ maxratio \in Tolerances
  /\ cast \in CastOutcomes
  /\ computed = <<>>
  /\ MathIdle

SpecBadness == InitBadness /\ [][NextBadness]_vars

-----------------------------------------------------------------------------
(* MathMode (src/unnamed/part_000).  The math parser, the output routines   *)
(* and the typesetting machine are not part of the sources: what a write    *)
(* does to them is kept as the sequence of the calls it makes.  A token is  *)
(* what write tests of it: "ControlSequence", or the category of a          *)
(* character token.                                                         *)

\* largest number of tokens written to a math mode
MaxTokens == 4

MathTokens ==
  { "ControlSequence", "MathShift", "Letter", "Other", "Subscript",
    "Superscript", "GroupBegin", "GroupEnd", "Space" }

\* Mode::Kind
ModeKinds == { "Horizontal", "Vertical", "Math" }

\* the two constructors: the routine is the caller's, or the lambda of the
\* one-argument constructor, which throws
OutputRoutines == { "given", "default" }

UnexpectedDollar == "Unexpected single '$' in display math mode"

NoOutputRoutine == "MathMode::writeOutput()"

\* what a member function did: the calls it made, what it threw ("" if it
\* returned), m_state and whether the mode was left
madeCalls(state, made) ==
  [m_state |-> state, calls |-> made, raised |-> "", left |-> FALSE]

\* mutant: the mode is left before the output routine runs
writeOutputLeaveFirst ==
  IF output_routine = "default"
    THEN [m_state |-> m_state, calls |-> <<"output_routine">>,
          raised |-> NoOutputRoutine, left |-> FALSE]
    ELSE [m_state |-> m_state,
          calls |-> <<"machine.leaveCurrentMode", "output_routine">>,
          raised |-> "", left |-> TRUE]

\* MathMode::writeOutput
writeOutput ==
  IF output_routine = "default"
    THEN [m_state |-> m_state, calls |-> <<"output_routine">>,
          raised |-> NoOutputRoutine, left |-> FALSE]
    ELSE [m_state |-> m_state,
          calls |-> <<"output_routine", "machine.leaveCurrentMode">>,
          raised |-> "", left |-> TRUE]

\* m_parser.finish(); writeOutput(); as MathMode::finish, write_main and
\* write_mathshift have it
finish ==
  [writeOutput EXCEPT !.calls = <<"m_parser.finish">> \o @]

\* MathMode::write_main.  csmap() is empty, so that every control sequence
\* goes to the parser; `ready` is m_buffer.ready() after the write
write_main(t, ready) ==
  CASE t = "ControlSequence" -> madeCalls(m_state, <<"m_parser.writeControlSequence">>)
    [] t = "MathShift" ->
         IF parentKind = "Horizontal"
           THEN finish
           ELSE madeCalls("MathShift", <<>>)
    [] t \in { "Letter", "Other" } ->
         IF ready
           THEN madeCalls(m_state, <<"m_buffer.write", "m_parser.writeSymbol">>)
           ELSE madeCalls(m_state, <<"m_buffer.write">>)
    [] t = "Subscript" -> madeCalls(m_state, <<"m_parser.beginSubscript">>)
    [] t = "Superscript" -> madeCalls(m_state, <<"m_parser.beginSuperscript">>)
    [] t = "GroupBegin" ->
         madeCalls(m_state, <<"machine.beginGroup", "m_parser.beginMathList">>)
    [] t = "GroupEnd" ->
         madeCalls(m_state, <<"m_parser.endMathList", "machine.endGroup">>)
    [] OTHER -> madeCalls(m_state, <<>>)

\* MathMode::write_mathshift
write_mathshift(t) ==
  IF t # "MathShift"
    THEN [m_state |-> m_state, calls |-> <<>>, raised |-> UnexpectedDollar,
          left |-> FALSE]
    ELSE finish

\* MathMode::write, called by the machine on the mode on top of its stack
MathWrite ==
  /\ ~left
  /\ tokens < MaxTokens
  /\ \E t \in MathTokens, ready \in BOOLEAN :
       LET r == IF m_state = "Main" THEN write_main(t, ready)
                                    ELSE write_mathshift(t)
       IN /\ token' = t
          /\ stateBefore' = m_state
          /\ m_state' = r.m_state
          /\ mathCalls' = r.calls
          /\ history' = history \o r.calls
          /\ raised' = r.raised
          /\ left' = r.left
  /\ tokens' = tokens + 1
  /\ UNCHANGED <<parentKind, output_routine>>
  /\ UNCHANGED <<paragraphVars, traversalVars, preprocessorVars, badnessVars>>

NextMathMode == MathWrite

\* a math mode as either constructor leaves it, on top of a parent mode
InitMathMode ==
  /\ ParagraphIdle
  /\ TraversalIdle
  /\ PreprocessorIdle
  /\ BadnessIdle
  /\ m_state = "Main"
  /\ parentKind \in ModeKinds
  /\ output_routine \in OutputRoutines
  /\ token = "none"
  /\ stateBefore = "Main"
  /\ mathCalls = <<>>
  /\ history = <<>>
  /\ raised = ""
  /\ left = FALSE
  /\ tokens = 0

SpecMathMode == InitMathMode /\ [][NextMathMode]_vars

-----------------------------------------------------------------------------
(* The reference the claims are measured against: the chains of legal      *)
(* break positions of a list, measured line by line from the list itself.  *)

\* the totals of the nodes before position i
RECURSIVE sumBefore(_, _)
sumBefore(list, i) ==
  IF i <= 1 THEN ZeroTotals ELSE addNode(sumBefore(list, i - 1), list[i - 1])

\* a glue that follows a box, or a penalty below +Infinity
legalBreak(list, i) ==
  \/ (isGlue(list[i]) /\ i > 1 /\ isBox(list[i - 1]))
  \/ (isPenalty(list[i]) /\ list[i].w < Infinity)

\* the totals a line that starts after a break at b is measured from
totalsAfter(list, b) ==
  IF b = 0 THEN ZeroTotals ELSE squeezeDiscardables(list, sumBefore(list, b), b)

\* the ratio of the line from the break at a (0: the start) to the break at b
lineRatio(list, a, b, line) ==
  computeGlueRatio(sumBefore(list, b), [totals |-> totalsAfter(list, a)], line)

lineFeasible(r) == ~RatioLess(r, -1) /\ RatioLeq(r, par.tolerance)

\* the demerits of one line, given the fitness class of the line before
lineDemerits(list, r, b, prevFitness) ==
  computeDemerits(par.linepenalty, computeBadness(r),
                  IF isPenalty(list[b]) THEN list[b].w ELSE 0)
  + (IF Abs(getFitnessClass(r) - prevFitness) > 1 THEN par.adjdemerits ELSE 0)

\* the cost of the chain of breaks `chain` (ascending positions), from its
\* k-th break on, the break before being at a
RECURSIVE chainCost(_, _, _, _, _)
chainCost(list, chain, k, a, prevFitness) ==
  IF k > Len(chain) THEN [ok |-> TRUE, demerits |-> 0]
  ELSE LET r == lineRatio(list, a, chain[k], k - 1)
       IN IF ~lineFeasible(r) THEN [ok |-> FALSE, demerits |-> 0]
          ELSE LET rest == chainCost(list, chain, k + 1, chain[k], getFitnessClass(r))
               IN [ok |-> rest.ok,
                   demerits |-> lineDemerits(list, r, chain[k], prevFitness)
                                + rest.demerits]

RECURSIVE ascending(_)
ascending(S) ==
  IF S = {} THEN <<>>
  ELSE LET m == CHOOSE x \in S : \A y \in S : x <= y
       IN <<m>> \o ascending(S \ {m})

\* every chain of legal breaks that ends at the last node of the list and
\* passes through every forced break
legalChains(list) ==
  LET inner == { i \in 1..(Len(list) - 1) : legalBreak(list, i) }
      forced == { i \in inner : isForcedLinebreak(list[i]) }
  IN { ascending(S \cup {Len(list)}) : S \in { T \in SUBSET inner : forced \subseteq T } }

feasibleCosts(list) ==
  { chainCost(list, c, 1, 0, Tight).demerits :
      c \in { x \in legalChains(list) : chainCost(list, x, 1, 0, Tight).ok } }

\* the positions of the breaks of the returned chain, without the start
returnedChain == [k \in 1..(Len(breakpoints) - 1) |-> bps[breakpoints[k + 1]].position]

\* computeBreakpoints(hlist) has returned a chain
returnedAny ==
  pc \in {"chosen", "create", "done", "crashed", "undefined"} /\ breakpoints # <<>>

returned == returnedAny /\ hlist # <<>>

lastBreakpoint == bps[breakpoints[Len(breakpoints)]]

\* the width of a line less its shrink never decreases along the list:
\* no negative box, kern or glue width, and every glue shrinks by a finite
\* amount that does not exceed its space
Monotone(list) ==
  \A i \in 1..Len(list) :
    /\ (isBox(list[i]) \/ isKern(list[i])) => list[i].w >= 0
    /\ isGlue(list[i]) => /\ list[i].shrinkOrder = Normal
                          /\ 0 <= list[i].shrink
                          /\ list[i].shrink <= list[i].w

-----------------------------------------------------------------------------
(* C1 *)

\* C1 (as stated): for every prepared list on which computeBreakpoints
\* succeeds, the returned chain is feasible and has the least demerits of
\* all feasible chains of legal breaks.
C1_Optimal ==
  returned =>
    /\ chainCost(hlist, returnedChain, 1, 0, Tight).ok
    /\ \A d \in feasibleCosts(hlist) : lastBreakpoint.demerits <= d

\* C1 (amended): the same, for the lists along which width less shrink
\* never decreases, so that a line found too long stays too long.
C1_OptimalMonotone ==
  (returned /\ Monotone(hlist)) =>
    /\ chainCost(hlist, returnedChain, 1, 0, Tight).ok
    /\ \A d \in feasibleCosts(hlist) : lastBreakpoint.demerits <= d

\* C1 witness: a monotone list with feasible chains of different cost, for
\* which a chain of three lines was returned
C1_Witness ==
  /\ returned
  /\ Monotone(hlist)
  /\ Cardinality(feasibleCosts(hlist)) >= 2
  /\ Len(breakpoints) >= 4

-----------------------------------------------------------------------------
(* C2 *)

\* the ratio computeGlueRatio returns for the line that ends at breakpoint i
\* (i is not the initial breakpoint)
ratioOf(i) ==
  computeGlueRatio(sumBefore(hlist, bps[i].position), bps[bps[i].previous],
                   bps[bps[i].previous].line)

\* the fitness class of the line that ends at breakpoint i
RECURSIVE fitnessOfLine(_)
fitnessOfLine(i) ==
  IF bps[i].previous = 0 THEN Tight ELSE getFitnessClass(ratioOf(i))

\* the sum of the demerits of the lines of the back-chain of breakpoint i
RECURSIVE backChainDemerits(_)
backChainDemerits(i) ==
  IF bps[i].previous = 0 THEN 0
  ELSE lineDemerits(hlist, ratioOf(i), bps[i].position,
                    fitnessOfLine(bps[i].previous))
       + backChainDemerits(bps[i].previous)

\* C2: every breakpoint tryBreak made has a ratio in [-1, tolerance] for the
\* line from its predecessor, and its demerits are the sum of the demerits
\* of the lines of its back-chain.
C2_FeasibleAndSummed ==
  \A i \in 1..Len(bps) :
    bps[i].previous # 0 =>
      /\ ~RatioLess(ratioOf(i), -1)
      /\ RatioLeq(ratioOf(i), par.tolerance)
      /\ bps[i].demerits = backChainDemerits(i)

\* C2 witness: a breakpoint that ends a second or later line whose fitness
\* class is incompatible with the class of the line before it
C2_Witness ==
  \E j \in 1..Len(bps) :
    /\ bps[j].line >= 2
    /\ Abs(bps[j].fitness - bps[bps[j].previous].fitness) > 1

-----------------------------------------------------------------------------
(* C3 *)

\* C3: the returned sequence starts with the initial breakpoint, line
\* numbers grow by one and each element's predecessor is the element before.
C3_ChainShape ==
  returnedAny =>
    /\ bps[breakpoints[1]] = Breakpoint(1, 0, 0, Tight, ZeroTotals, 0)
    /\ \A k \in 1..(Len(breakpoints) - 1) :
         /\ bps[breakpoints[k + 1]].line = bps[breakpoints[k]].line + 1
         /\ bps[breakpoints[k + 1]].previous = breakpoints[k]

\* C3 witness: a returned chain of three lines
C3_Witness == returnedAny /\ Len(breakpoints) = 4

-----------------------------------------------------------------------------
(* C4 *)

\* C4 (as stated): the last breakpoint of a returned chain is at hlist.end()
C4_LastAtEnd == returnedAny => lastBreakpoint.position = Len(hlist) + 1

\* C4 (amended): the last breakpoint of a chain returned for a non-empty
\* prepared list is at the last node of the list, the forced-break penalty
\* prepare appended, one before hlist.end(); only for the empty list is it
\* at hlist.begin() = hlist.end().
C4_LastAtFinalPenalty ==
  returnedAny =>
    IF hlist = <<>> THEN lastBreakpoint.position = 1
    ELSE /\ lastBreakpoint.position = Len(hlist)
         /\ isForcedLinebreak(hlist[lastBreakpoint.position])

\* C4 witness: a chain of two lines returned for a non-empty list
C4_Witness == returned /\ Len(breakpoints) = 3

-----------------------------------------------------------------------------
(* C5 *)

endsWithTerminator(list) ==
  /\ Len(list) >= 3
  /\ list[Len(list) - 2] = Penalty(Infinity)
  /\ list[Len(list) - 1] = par.parfillskip
  /\ list[Len(list)] = Penalty(-Infinity)

\* the input without its last node when that is a glue
withoutTrailingGlue(list) ==
  IF list # <<>> /\ isGlue(list[Len(list)])
  THEN SubSeq(list, 1, Len(list) - 1) ELSE list

\* C5 (as stated): after prepare, for every input list, the list ends with
\* penalty +Infinity, parfillskip, penalty -Infinity, put after the input
\* less a trailing glue.
C5_TerminatedAlways ==
  pc # "input" =>
    /\ endsWithTerminator(hlist)
    /\ SubSeq(hlist, 1, Len(hlist) - 3) = withoutTrailingGlue(hlist0)

\* C5 (amended): that holds for every non-empty input list; an empty list
\* is left empty.
C5_TerminatedNonEmpty ==
  pc # "input" =>
    IF hlist0 = <<>> THEN hlist = <<>>
    ELSE /\ endsWithTerminator(hlist)
         /\ SubSeq(hlist, 1, Len(hlist) - 3) = withoutTrailingGlue(hlist0)

\* C5 witness: prepare has run on a list that ended with a glue after a glue
C5_Witness ==
  /\ pc = "prepared"
  /\ Len(hlist0) >= 2
  /\ isGlue(hlist0[Len(hlist0)])
  /\ isGlue(hlist0[Len(hlist0) - 1])

-----------------------------------------------------------------------------
(* C6 *)

\* C6: every breakpoint but the initial one is at a glue that follows a box
\* or at a penalty below +Infinity.
C6_LegalPositions ==
  \A i \in 1..Len(bps) :
    bps[i].previous # 0 =>
      /\ bps[i].position \in 1..Len(hlist)
      /\ legalBreak(hlist, bps[i].position)

\* C6 witness: breakpoints at a glue and at a non-forced penalty, in a list
\* that also holds a glue that does not follow a box
C6_Witness ==
  /\ \E i \in 1..Len(bps) : bps[i].previous # 0 /\ isGlue(hlist[bps[i].position])
  /\ \E i \in 1..Len(bps) :
       /\ bps[i].previous # 0
       /\ isPenalty(hlist[bps[i].position])
       /\ ~isForcedLinebreak(hlist[bps[i].position])
  /\ \E k \in 2..Len(hlist) : isGlue(hlist[k]) /\ ~isBox(hlist[k - 1])
  /\ pc = "chosen"

-----------------------------------------------------------------------------
(* C7 *)

inActive(i, list) == \E k \in 1..Len(list) : list[k] = i

\* the loop has just processed a forced-break penalty
afterForcedBreak ==
  pc = "scan" /\ it > 1 /\ isForcedLinebreak(hlist[it - 1])

\* C7: right after tryBreak at a forced break no breakpoint that was active
\* before is active, all active ones are at that penalty; and at the end of
\* the pass over a prepared list all active ones are at its final penalty.
C7_ForcedBreakClearsActive ==
  /\ afterForcedBreak =>
       \A k \in 1..Len(activeNodes) :
         /\ ~inActive(activeNodes[k], lastActive)
         /\ bps[activeNodes[k]].position = it - 1
  /\ (pc = "scan" /\ it = Len(hlist) + 1 /\ hlist # <<>>) =>
       \A k \in 1..Len(activeNodes) : bps[activeNodes[k]].position = Len(hlist)

\* C7 witness: a forced break in the middle of the list was processed with
\* two breakpoints active before it and one after it
C7_Witness ==
  /\ afterForcedBreak
  /\ it <= Len(hlist)
  /\ Len(lastActive) >= 2
  /\ Len(activeNodes) >= 1

-----------------------------------------------------------------------------
(* C8 *)

\* the k-th line create has built, and the breakpoint that ends it
builtLine(k) == result[2 * k]
lineBreakpoint(k) == breakpoints[k + 1]
linesBuilt == IF pc \in {"create", "done"} THEN 1..(Len(result) \div 2) ELSE {}

\* the line is set with finite glue: the side of its glue that is used has
\* a positive amount and no infinite order
finiteSetting(line) ==
  LET t == naturalTotals(line.list, 1)
  IN IF line.width > t.width
     THEN order(t.stretch) = Normal /\ t.stretch[Normal] > 0
     ELSE IF line.width < t.width
     THEN order(t.shrink) = Normal /\ t.shrink[Normal] > 0
     ELSE TRUE

\* the indent of the parshape row of line k (counted from 1)
indentOf(k) == IF par.parshape = <<>> THEN 0 ELSE parshapeRow(k - 1).indent

-----------------------------------------------------------------------------
(* C9 *)

\* tryBreak is about to be run at `it`
breakPending == pc = "scan" /\ it <= Len(hlist) /\ breakAttempted(hlist, prevnode, it)

availableShrink(active) ==
  [o \in 0..3 |-> sum.shrink[o] + shrinkTotals(par.leftskip, par.rightskip)[o]
                  - active.totals.shrink[o]]

\* C9: a candidate line wider than the line length gets a negative ratio,
\* or 0 when its shrink is not of Normal order.
C9_OverfullNegative ==
  breakPending =>
    \A k \in 1..Len(activeNodes) :
      LET active == bps[activeNodes[k]]
          r == computeGlueRatio(sum, active, active.line)
      IN lineWidth(sum, active) > linelength(active.line) =>
           \/ r[1] < 0
           \/ (r[1] = 0 /\ order(availableShrink(active)) # Normal)

-----------------------------------------------------------------------------
(* C10 *)

\* C10: computeBreakpoints fails exactly when no breakpoint is active after
\* the pass and returns no chain then; the failed call has changed neither
\* the list nor the configuration.
C10_FailsIffNoneActive ==
  /\ pc = "failed" =>
       /\ activeNodes = <<>>
       /\ breakpoints = <<>>
       /\ hlist = hlistCall
       /\ par = parCall
  /\ returnedAny => activeNodes # <<>>

\* C10 witness: a failed call during which breakpoints had been made
C10_Witness == pc = "failed" /\ hlist # <<>> /\ Len(bps) >= 2

-----------------------------------------------------------------------------
(* C11 *)

\* the prepared list offers no legal break but the forced break at its end
nonBreakable(list) ==
  /\ list # <<>>
  /\ isForcedLinebreak(list[Len(list)])
  /\ \A i \in 1..(Len(list) - 1) : ~legalBreak(list, i)

\* computeBreakpoints(hlist) has returned or thrown
breakingOver == pc \in {"failed", "chosen", "create", "done", "crashed", "undefined"}

\* the one line of a non-breakable list, from the start to the final
\* penalty, is not wider than the first line length, or its finite shrink
\* takes it down to that length
singleLineFits(list) ==
  LET t == sumBefore(list, Len(list))
      excess == t.width - par.leftskip.w - par.rightskip.w - linelength(0)
  IN \/ excess <= 0
     \/ (order(t.shrink) = Normal /\ t.shrink[Normal] > 0 /\ excess <= t.shrink[Normal])

-----------------------------------------------------------------------------
(* C12 *)

\* C12: for an empty list prepare leaves it empty, and create(hlist)
\* returns an empty vertical list; no breakpoint is made and no error is
\* reported on the way.
C12_EmptyStaysEmpty ==
  (entry = "create" /\ hlist0 = <<>>) =>
    /\ hlist = <<>>
    /\ pc \in {"input", "prepared", "done"}
    /\ bps = <<>>
    /\ breakpoints = <<>>
    /\ result = <<>>

\* C12 witness: create(hlist) has returned for an empty list
C12_Witness == entry = "create" /\ hlist0 = <<>> /\ pc = "done"

-----------------------------------------------------------------------------
(* C13 *)

\* the HBoxes of a vertical list
hboxesOf(vlist) == { k \in 1..Len(vlist) : vlist[k].type = "hbox" }

-----------------------------------------------------------------------------
(* C14 *)

\* C14: with hangafter = 0, hangindent > 0 and no parshape, every line
\* number n has the hanging indent: hangindentAppliesToLine(n) holds,
\* linelength(n) is hsize - |hangindent|, and the line createLine makes for
\* n starts with a kern of hangindent; so does every line create has built.
C14_EveryLineHangs ==
  (par.hangafter = 0 /\ par.hangindent > 0 /\ par.parshape = <<>>) =>
    /\ \A n \in 0..MaxLine :
         /\ hangindentAppliesToLine(n)
         /\ linelength(n) = par.hsize - Abs(par.hangindent)
         /\ createLine(n, <<Box(2)>>).list[1] = Kern(par.hangindent)
    /\ \A k \in linesBuilt : builtLine(k).list[1] = Kern(par.hangindent)

\* C14 witness: create has built three lines with hangafter = 0 and a
\* positive hangindent
C14_Witness ==
  /\ pc = "done"
  /\ par.hangafter = 0 /\ par.hangindent > 0 /\ par.parshape = <<>>
  /\ Len(result) = 6

-----------------------------------------------------------------------------
(* C15 *)

\* the line length the claim states for line n
statedLength(n) ==
  IF par.parshape # <<>>
  THEN par.parshape[Min(n, Len(par.parshape) - 1) + 1].length
  ELSE IF /\ par.hangindent # 0
          /\ \/ (par.hangafter < 0 /\ n < -par.hangafter)
             \/ (par.hangafter >= 0 /\ n >= par.hangafter)
       THEN par.hsize - Abs(par.hangindent)
       ELSE par.hsize

\* C15: linelength(n) is the length of parshape row min(n, len-1) when the
\* parshape is not empty, whatever hangindent and hangafter are; else
\* hsize - |hangindent| on the lines the hanging indent applies to; else
\* hsize.  With a parshape createLine too ignores hangindent: the line is
\* the kern of the row's indent, leftskip, the nodes, rightskip, set to the
\* row's length.
C15_LineLength ==
  /\ \A n \in 0..MaxLine :
       /\ linelength(n) = statedLength(n)
       /\ par.parshape # <<>> =>
            LET line == createLine(n, <<Box(2)>>)
            IN /\ line.list = <<Kern(parshapeRow(n).indent), par.leftskip,
                                 Box(2), par.rightskip>>
               /\ line.width = statedLength(n)
  /\ par.parshape # <<>> =>
       \A k \in linesBuilt : builtLine(k).width = statedLength(k - 1)

\* C15 witness: create has built three lines with a parshape of two rows
\* and a hanging indent that would apply to each of them
C15_Witness ==
  /\ pc = "done"
  /\ Len(par.parshape) = 2
  /\ par.hangindent # 0 /\ par.hangafter = 0
  /\ Len(result) = 6

-----------------------------------------------------------------------------
(* C16 *)

\* the list handed to prepare holds boxes and glue only
onlyBoxesAndGlue(list) == \A i \in 1..Len(list) : isBox(list[i]) \/ isGlue(list[i])

\* C16: for a list of boxes and glue, with linepenalty >= 0 and
\* adjdemerits >= 0, the demerits never decrease along the chosen chain and
\* the glue ratio of each of its lines is in [-1, tolerance].
C16_MonotoneDemerits ==
  (returned /\ onlyBoxesAndGlue(hlist0) /\ par.linepenalty >= 0 /\ par.adjdemerits >= 0) =>
    \A k \in 1..(Len(breakpoints) - 1) :
      /\ bps[breakpoints[k + 1]].demerits >= bps[breakpoints[k]].demerits
      /\ ~RatioLess(ratioOf(breakpoints[k + 1]), -1)
      /\ RatioLeq(ratioOf(breakpoints[k + 1]), par.tolerance)

\* C16 witness: a chain of three lines chosen for a list of boxes and glue,
\* the first line set at a ratio other than 0
C16_Witness ==
  /\ returned
  /\ onlyBoxesAndGlue(hlist0)
  /\ Len(breakpoints) = 4
  /\ ratioOf(breakpoints[2])[1] # 0

-----------------------------------------------------------------------------
(* C20 *)

\* tryBreak has just been run at position it - 1
afterTryBreak ==
  /\ pc = "scan"
  /\ it > 1
  /\ breakAttempted(hlist, IF it = 2 THEN Len(hlist) + 1 ELSE it - 2, it - 1)

\* the active breakpoints of line L before that call, as indices into lastActive
groupOf(L) == { k \in 1..Len(lastActive) : bps[lastActive[k]].line = L }

\* the ratio of the line from the k-th active breakpoint to position it - 1
ratioFrom(k) ==
  computeGlueRatio(sumBefore(hlist, it - 1), bps[lastActive[k]],
                   bps[lastActive[k]].line)

\* the demerits of the chain through the k-th active breakpoint to it - 1
demeritsThrough(k) ==
  lineDemerits(hlist, ratioFrom(k), it - 1, bps[lastActive[k]].fitness)
  + bps[lastActive[k]].demerits

\* the members of the group of line L that are feasible with class fc
feasibleWith(L, fc) ==
  { k \in groupOf(L) : lineFeasible(ratioFrom(k)) /\ getFitnessClass(ratioFrom(k)) = fc }

\* the breakpoints the call has made for line L + 1 and class fc
insertedFor(L, fc) ==
  { j \in 1..Len(bps) :
      bps[j].previous # 0 /\ bps[j].position = it - 1 /\ bps[j].line = L + 1
      /\ bps[j].fitness = fc }

\* C20: a tryBreak call makes, for each line number L of the active list
\* and each fitness class fc, at most one breakpoint, of line L + 1 at the
\* position of the call; it makes one exactly when a breakpoint of the
\* group is feasible with fc, and its predecessor is then the earliest
\* member of the group, in the order of the active list, of least
\* resulting demerits among the feasible ones; it has those demerits.
C20_BestPerClass ==
  afterTryBreak =>
    /\ \A j \in 1..Len(bps) :
         bps[j].position = it - 1 /\ bps[j].previous # 0 =>
           \E k \in 1..Len(lastActive) :
             lastActive[k] = bps[j].previous /\ bps[j].line = bps[lastActive[k]].line + 1
    /\ \A L \in { bps[lastActive[k]].line : k \in 1..Len(lastActive) } :
         \A fc \in 0..3 :
           LET F == feasibleWith(L, fc)
               N == insertedFor(L, fc)
           IN /\ Cardinality(N) <= 1
              /\ N # {} <=> F # {}
              /\ \A j \in N :
                   \E k \in F :
                     /\ bps[j].previous = lastActive[k]
                     /\ bps[j].demerits = demeritsThrough(k)
                     /\ \A m \in F : demeritsThrough(k) <= demeritsThrough(m)
                     /\ \A m \in F : demeritsThrough(m) = demeritsThrough(k) => k <= m

\* C20 witness: a call with a group of two breakpoints feasible with the
\* same class at equal demerits, and a second group of another line number
C20_Witness ==
  /\ afterTryBreak
  /\ \E L \in 0..MaxWords : \E fc \in 0..3 :
       \E k, m \in feasibleWith(L, fc) :
         k < m /\ demeritsThrough(k) = demeritsThrough(m)
  /\ \E k, m \in 1..Len(lastActive) : bps[lastActive[k]].line # bps[lastActive[m]].line

-----------------------------------------------------------------------------
(* C17 *)

\* read has returned
readOver == visits # <<>> /\ calls = <<>>

\* the visitor has returned Done
halted == mode = "partial" /\ doneAt > 0 /\ Len(visits) >= doneAt

\* C17: in partial traversal the visitor is not called again once one of
\* its calls has returned Done, at whatever depth and for whatever kind of
\* box: the call that returned Done is the last one, and every running
\* call returns without reading another node.
C17_HaltStopsVisits ==
  (mode = "partial" /\ doneAt > 0) =>
    /\ Len(visits) <= doneAt
    /\ Len(visits) = doneAt => ret = "Done"

\* C17 witness: read has returned after Done was returned for a box three
\* levels down, with boxes of the tree left unvisited
C17_Witness ==
  /\ readOver
  /\ halted
  /\ Len(visits[doneAt].path) = 3
  /\ boxCount(layout) > doneAt

-----------------------------------------------------------------------------
(* C18 *)

\* the paths of the boxes of a tree in preorder: the box, then the boxes of
\* its children in list order
RECURSIVE preorder(_, _)
RECURSIVE preorderOf(_, _, _)
preorderOf(list, path, i) ==
  IF i > Len(list) THEN <<>>
  ELSE (IF list[i].type \in {"box", "rule", "hbox", "vbox"}
        THEN preorder(list[i], Append(path, i)) ELSE <<>>)
       \o preorderOf(list, path, i + 1)

preorder(box, path) ==
  <<path>> \o (IF box.type \in {"hbox", "vbox"} THEN preorderOf(box.list, path, 1) ELSE <<>>)

visitedPaths == [k \in 1..Len(visits) |-> visits[k].path]

\* C18: full traversal calls the visitor for the boxes of the tree and for
\* nothing else, once each and in preorder: at every moment the boxes
\* visited so far are the first ones of the preorder, and all of them have
\* been visited when read returns.
C18_FullPreorder ==
  mode = "full" =>
    LET all == preorder(layout, <<>>)
    IN /\ Len(visits) <= Len(all)
       /\ visitedPaths = SubSeq(all, 1, Len(visits))
       /\ readOver => Len(visits) = Len(all)

\* the node of the tree `box` at `path`
RECURSIVE nodeAt(_, _)
nodeAt(box, path) ==
  IF path = <<>> THEN box ELSE nodeAt(box.list[Head(path)], Tail(path))

\* C18 witness: a full traversal has returned for a vbox three levels deep,
\* in which a rule that is followed by a glue was visited
C18_Witness ==
  /\ mode = "full"
  /\ readOver
  /\ isVBox(layout)
  /\ Len(visits) >= 5
  /\ \E k \in 1..Len(visits) :
       LET path == visits[k].path
       IN /\ Len(path) = 3
          /\ isRule(nodeAt(layout, path))
          /\ isGlue(nodeAt(layout, SubSeq(path, 1, 2)).list[path[3] + 1])

-----------------------------------------------------------------------------
(* C19 *)

\* the ids of the tokens of a sequence
idsOf(toks) == { toks[k].id : k \in 1..Len(toks) }

\* the tokens of a sequence that were written (not made by an expansion)
RECURSIVE writtenIn(_)
writtenIn(toks) ==
  IF toks = <<>> THEN <<>>
  ELSE (IF Len(Head(toks).id) = 1 THEN <<Head(toks).id[1]>> ELSE <<>>)
       \o writtenIn(Tail(toks))

\* C19: the tokens written are processed in the order they were written:
\* those processed, followed by those pending in `input`, are the tokens
\* 1..written in that order; a token is processed only after every token
\* that was pending when it was written; and a token written while tokens
\* were pending was put at the back of `input`, behind them.
C19_WriteKeepsOrder ==
  /\ writtenIn(processed) \o writtenIn(input) = [k \in 1..written |-> k]
  /\ \A j \in 1..Len(processed) :
       processed[j].behind \subseteq idsOf(SubSeq(processed, 1, j - 1))
  /\ \A j \in 1..Len(input) :
       input[j].behind \subseteq
         idsOf(processed) \cup idsOf(SubSeq(input, 1, j - 1))

\* C19 witness: a token that was written behind a pending written token
\* and a pending token of an expansion has been processed
C19_Witness ==
  \E j \in 1..Len(processed) :
    /\ \E b \in processed[j].behind : Len(b) = 1
    /\ \E b \in processed[j].behind : Len(b) > 1


-----------------------------------------------------------------------------
(* C21 *)

\* the class the thresholds -0.5, 0.5 and 1 give to the ratio r = n/d
statedClass(r) ==
  CASE 2 * r[1] < -r[2] -> Tight
    [] -r[2] <= 2 * r[1] /\ 2 * r[1] <= r[2] -> Decent
    [] r[2] < 2 * r[1] /\ r[1] <= r[2] -> Loose
    [] r[1] > r[2] -> VeryLoose

\* the ratios of the lines of a chain of breaks, line by line
ratiosOfChain(list, chain) ==
  [k \in 1..Len(chain) |->
     lineRatio(list, IF k = 1 THEN 0 ELSE chain[k - 1], chain[k], k - 1)]

\* (l + b)^2 +- p^2 summed over the lines of a chain: the demerits its
\* badness and penalties account for
RECURSIVE baseDemerits(_, _, _)
baseDemerits(list, chain, k) ==
  IF k > Len(chain) THEN 0
  ELSE computeDemerits(par.linepenalty, computeBadness(ratiosOfChain(list, chain)[k]),
                       IF isPenalty(list[chain[k]]) THEN list[chain[k]].w ELSE 0)
       + baseDemerits(list, chain, k + 1)

\* the pairs of consecutive lines of a chain more than one class apart
farPairs(list, chain) ==
  { k \in 2..Len(chain) :
      Abs(statedClass(ratiosOfChain(list, chain)[k])
          - statedClass(ratiosOfChain(list, chain)[k - 1])) > 1 }

feasibleChains(list) ==
  { c \in legalChains(list) : chainCost(list, c, 1, 0, Tight).ok }

\* every breakpoint made by tryBreak holds the class the thresholds give to
\* the ratio of its line, and adjdemerits was added to its demerits exactly
\* when that class and the class stored in its predecessor differ by more
\* than 1
classAndAdjacency ==
  \A j \in 1..Len(bps) :
    bps[j].previous # 0 =>
      LET r == ratioOf(j)
          prev == bps[bps[j].previous]
          base == computeDemerits(par.linepenalty, computeBadness(r),
                                  IF isPenalty(hlist[bps[j].position])
                                  THEN hlist[bps[j].position].w ELSE 0)
      IN /\ bps[j].fitness = statedClass(r)
         /\ bps[j].demerits - prev.demerits - base =
              (IF Abs(bps[j].fitness - prev.fitness) > 1 THEN par.adjdemerits ELSE 0)

farLines(list, chain) ==
  { k \in 1..Len(chain) :
      Abs(statedClass(ratiosOfChain(list, chain)[k])
          - (IF k = 1 THEN Tight ELSE statedClass(ratiosOfChain(list, chain)[k - 1]))) > 1 }

-----------------------------------------------------------------------------
(* C22 *)

\* (l + b)^2 with p^2 added for 0 <= p < 10000, taken away for
\* -10000 < p < 0 and left out otherwise
statedDemerits(l, b, p) ==
  LET square == (l + b) * (l + b)
      term == CASE p >= 10000 \/ p <= -10000 -> 0
                [] p >= 0 /\ p < 10000 -> p * p
                [] p < 0 /\ p > -10000 -> -(p * p)
  IN square + term

\* the penalty tryBreak hands to computeDemerits for a break at position i
statedPenalty(i) == IF hlist[i].type = "penalty" THEN hlist[i].w ELSE 0

\* the values of p the three cases and their bounds are tried at
PenaltyValues == { -10001, -Infinity, -9999, -50, -1, 0, 1, 50, 9999, Infinity, 10001 }

\* C22: computeDemerits follows the three cases for every p, and a
\* breakpoint made by tryBreak has the demerits of its predecessor, plus
\* adjdemerits or nothing, plus that value for the badness of its line and
\* for p the value of the penalty at its position, 0 at a glue.
C22_DemeritsCases ==
  /\ \A p \in PenaltyValues : \A b \in {0, 1, 12, 100, 10000} :
       computeDemerits(par.linepenalty, b, p) = statedDemerits(par.linepenalty, b, p)
  /\ \A j \in 1..Len(bps) :
       bps[j].previous # 0 =>
         LET prev == bps[bps[j].previous]
             adj == IF Abs(bps[j].fitness - prev.fitness) > 1 THEN par.adjdemerits ELSE 0
         IN /\ bps[j].demerits - prev.demerits - adj =
                 statedDemerits(par.linepenalty, computeBadness(ratioOf(j)),
                                statedPenalty(bps[j].position))
            /\ isForcedLinebreak(hlist[bps[j].position]) \/ isGlue(hlist[bps[j].position]) =>
                 bps[j].demerits - prev.demerits - adj =
                   (par.linepenalty + computeBadness(ratioOf(j)))
                   * (par.linepenalty + computeBadness(ratioOf(j)))

\* C22 witness: breakpoints were made at a positive penalty, at a negative
\* penalty and, after them, at the forced break that ends the list
C22_Witness ==
  /\ \E j \in 2..Len(bps) : bps[j].line = 3
  /\ \E j \in 2..Len(bps) : isForcedLinebreak(hlist[bps[j].position])
  /\ \E j \in 2..Len(bps) : statedPenalty(bps[j].position) = 9999
  /\ \E j \in 2..Len(bps) : statedPenalty(bps[j].position) \in {-9999, -50}


-----------------------------------------------------------------------------
(* C23 *)

\* min(10000, floor(100 * |r|^3)); the floor is 12500 or more from |r| = 5 on
statedBadness(r) ==
  IF Abs(r[1]) >= 5 * r[2] THEN 10000
  ELSE Min(10000, (100 * Abs(r[1]) * Abs(r[1]) * Abs(r[1])) \div (r[2] * r[2] * r[2]))

\* C23: for every ratio r with -1 <= r <= tolerance that tryBreak passes to
\* computeBadness, the sentinel 10000 included, the badness returned is
\* min(10000, floor(100 * |r|^3)) and lies in 0..10000.
C23_BadnessSaturates ==
  computed # <<>> =>
    /\ computed[1] = statedBadness(glueSetRatio)
    /\ 0 <= computed[1]
    /\ computed[1] <= 10000


-----------------------------------------------------------------------------
(* C24 *)

\* the first position from p on that holds a box, or, after p, a forced
\* break; the end of the list when there is none
squeezeStop(list, p) ==
  LET stops == { i \in p..Len(list) :
                   list[i].type = "box" \/ (i > p /\ list[i].type = "penalty"
                                                  /\ list[i].w <= -Infinity) }
  IN IF stops = {} THEN Len(list) + 1
     ELSE CHOOSE i \in stops : \A k \in stops : i <= k

RECURSIVE sumSeq(_)
sumSeq(q) == IF q = <<>> THEN 0 ELSE Head(q) + sumSeq(Tail(q))

spaceOf(node) == IF node.type \in {"glue", "kern", "box"} THEN node.w ELSE 0

stretchOf(o, node) ==
  IF node.type = "glue" /\ node.stretchOrder = o THEN node.stretch ELSE 0

shrinkOf(o, node) ==
  IF node.type = "glue" /\ node.shrinkOrder = o THEN node.shrink ELSE 0

\* the sum of the spaces of the positions a..b
widthOfRange(list, a, b) ==
  sumSeq([i \in 1..(b - a + 1) |-> spaceOf(list[a + i - 1])])

\* the totals of the positions a..b
totalsOfRange(list, a, b) ==
  [width |-> widthOfRange(list, a, b),
   stretch |-> [o \in 0..3 |->
                  sumSeq([i \in 1..(b - a + 1) |-> stretchOf(o, list[a + i - 1])])],
   shrink |-> [o \in 0..3 |->
                 sumSeq([i \in 1..(b - a + 1) |-> shrinkOf(o, list[a + i - 1])])]]

\* C24: the totals stored in a breakpoint made at position p are the totals
\* of every node before p and of every glue and kern from p up to the first
\* box, or the first forced break after p; and a line measured from that
\* breakpoint to a later break has the width of the nodes from that first
\* box to the later break.
C24_TotalsSnapshot ==
  \A j \in 1..Len(bps) :
    bps[j].previous # 0 =>
      LET p == bps[j].position
          e == squeezeStop(hlist, p)
      IN /\ bps[j].totals = totalsOfRange(hlist, 1, e - 1)
         /\ \A k \in 1..Len(bps) :
              bps[k].previous = j /\ e <= bps[k].position =>
                lineWidth(sumBefore(hlist, bps[k].position), bps[j])
                  = widthOfRange(hlist, e, bps[k].position - 1)
                    - par.leftskip.w - par.rightskip.w

\* C24 witness: a breakpoint followed by a kern and by a penalty that is
\* not forced, before the stop, and a breakpoint at a glue followed by a box
\* from which a later line was measured
C24_Witness ==
  /\ \E j \in 2..Len(bps) :
       LET p == bps[j].position
           e == squeezeStop(hlist, p)
       IN /\ \E i \in (p + 1)..(e - 1) : hlist[i].type = "kern"
          /\ \E i \in (p + 1)..(e - 1) : hlist[i].type = "penalty"
  /\ \E j \in 2..Len(bps) :
       /\ isGlue(hlist[bps[j].position])
       /\ squeezeStop(hlist, bps[j].position) = bps[j].position + 1
       /\ \E k \in 2..Len(bps) : bps[k].previous = j


-----------------------------------------------------------------------------
(* C25 *)

\* the three shapes of a line: with a parshape, with the hanging indent
\* applying, and plain
lineCase(k) ==
  IF par.parshape # <<>> THEN "parshape"
  ELSE IF par.hangindent # 0 /\ hangindentAppliesToLine(k) THEN "hang"
  ELSE "plain"

\* the nodes createLine is said to put before and after the slice
statedFront(k) ==
  CASE lineCase(k) = "parshape" ->
         <<Kern(par.parshape[Min(k, Len(par.parshape) - 1) + 1].indent), par.leftskip>>
    [] lineCase(k) = "hang" /\ par.hangindent > 0 -> <<Kern(par.hangindent), par.leftskip>>
    [] OTHER -> <<par.leftskip>>

statedBack(k) ==
  IF lineCase(k) = "hang" /\ par.hangindent < 0
  THEN <<par.rightskip, Kern(Abs(par.hangindent))>>
  ELSE <<par.rightskip>>

statedTarget(k) ==
  IF lineCase(k) = "hang" THEN linelength(k) + Abs(par.hangindent) ELSE linelength(k)

\* the slices createLine is tried on
Slices ==
  { <<>>, <<Box(2)>>, <<Box(2), Glue(1, 1, 1, Normal, Normal), Box(3)>>,
    <<Kern(1), Box(2), Penalty(-50)>> }

\* C25: createLine(k, begin, end) returns the hbox of the stated front
\* nodes, the slice and the stated back nodes, of target width linelength(k),
\* plus |hangindent| (which makes hsize) when the hanging indent applies; so
\* is every line create has built.
C25_LineShape ==
  /\ \A k \in 0..MaxLine : \A slice \in Slices :
       /\ createLine(k, slice).list = statedFront(k) \o slice \o statedBack(k)
       /\ createLine(k, slice).width = statedTarget(k)
       /\ lineCase(k) = "hang" => createLine(k, slice).width = par.hsize
  /\ \A k \in linesBuilt :
       LET line == builtLine(k)
           front == statedFront(k - 1)
           back == statedBack(k - 1)
           n == Len(line.list)
       IN /\ n >= Len(front) + Len(back)
          /\ SubSeq(line.list, 1, Len(front)) = front
          /\ SubSeq(line.list, n - Len(back) + 1, n) = back
          /\ line.width = statedTarget(k - 1)

\* C25 witness: create has built three lines with a negative hanging indent
\* that applies to the first two and not to the third
C25_Witness ==
  /\ par.hangindent < 0
  /\ Len(result) >= 6
  /\ pc \in {"create", "done"}
  /\ lineCase(0) = "hang" /\ lineCase(1) = "hang" /\ lineCase(2) = "plain"


-----------------------------------------------------------------------------
(* C26 *)

\* the first position from p on whose node is not a kern, a glue or a
\* penalty; 0 when every node from p on is one
firstKept(list, p) ==
  LET kept == { i \in p..Len(list) : list[i].type \notin {"kern", "glue", "penalty"} }
  IN IF kept = {} THEN 0 ELSE CHOOSE i \in kept : \A k \in kept : i <= k

\* the nodes of the hlist in the k-th line built, between the nodes
\* createLine puts before and after them
sliceOfLine(k) ==
  LET line == result[2 * k]
  IN SubSeq(line.list, Len(statedFront(k - 1)) + 1,
            Len(line.list) - Len(statedBack(k - 1)))

\* the position of the k-th break of the chain, the initial breakpoint
\* being the 0-th
breakPosition(k) == bps[breakpoints[k + 1]].position

\* C26: create runs to its end, and the k-th line it builds holds the nodes
\* from the first non-discardable node at or after break k - 1 (from the
\* first node of the list for the first line) up to break k; after the last
\* break nothing is consumed.
C26_LineStarts ==
  /\ pc \notin {"crashed", "undefined"}
  /\ \A k \in 1..(Len(result) \div 2) :
       breakpoints # <<>> =>
         LET start == IF k = 1 THEN 1 ELSE firstKept(hlist, breakPosition(k - 1))
         IN /\ start # 0
            /\ start <= breakPosition(k)
            /\ sliceOfLine(k) = SubSeq(hlist, start, breakPosition(k) - 1)
  /\ (pc = "done" /\ Len(breakpoints) >= 2) =>
       lineStart = breakPosition(Len(breakpoints) - 1)


-----------------------------------------------------------------------------
(* C27 *)

\* the visit of the box at `path`
visitOf(path) == visits[CHOOSE k \in 1..Len(visits) : visits[k].path = path]

parentPath(path) == SubSeq(path, 1, Len(path) - 1)

\* the visits of the children of an hbox (a vbox)
childVisitsOf(kind) ==
  { k \in 1..Len(visits) :
      visits[k].path # <<>> /\ nodeAt(layout, parentPath(visits[k].path)).type = kind }

\* what a glue adds to the cursor of the list box `parent`
statedGlue(parent, glue) ==
  glue.w + (CASE parent.glueRatio >= 0 /\ glue.stretchOrder = parent.glueOrder ->
                   parent.glueRatio * glue.stretch
              [] parent.glueRatio < 0 /\ glue.shrinkOrder = parent.glueOrder ->
                   parent.glueRatio * glue.shrink
              [] OTHER -> 0)

\* what the node advances the x cursor of the hbox `parent` by
statedAdvanceX(parent, node) ==
  CASE node.type \in {"box", "rule", "hbox", "vbox"} -> node.w
    [] node.type = "kern" -> node.w
    [] node.type = "glue" -> statedGlue(parent, node)
    [] OTHER -> 0

\* the shift of a child: shiftAmount for a list box, none for another box
statedShift(node) == IF node.type \in {"hbox", "vbox"} THEN node.shiftAmount ELSE 0

\* C27: every child box of an hbox emitted at (x, y) is emitted at x plus
\* the advances of the children before it and at y plus its own shift.
C27_HBoxPositions ==
  \A k \in childVisitsOf("hbox") :
    LET path == visits[k].path
        parent == nodeAt(layout, parentPath(path))
        at == visitOf(parentPath(path))
        i == path[Len(path)]
    IN /\ visits[k].x = at.x + sumSeq([m \in 1..(i - 1) |->
                                         statedAdvanceX(parent, parent.list[m])])
       /\ visits[k].y = at.y + statedShift(parent.list[i])

\* C27 witness: in a shrunk hbox of glue order fil, a shifted list box was
\* emitted and so was the box after the glue that follows it
C27_Witness ==
  /\ isHBox(layout)
  /\ layout.glueRatio < 0
  /\ layout.glueOrder = Fil
  /\ isGlue(layout.list[2])
  /\ layout.list[2].shrinkOrder = Fil
  /\ isListBox(layout.list[1])
  /\ layout.list[1].shiftAmount # 0
  /\ \E k \in 1..Len(visits) : visits[k].path = <<3>>

-----------------------------------------------------------------------------
(* C28 *)

\* what the node advances the y cursor of the vbox `parent` by
statedAdvanceY(parent, node) ==
  CASE node.type \in {"box", "rule", "hbox", "vbox"} -> node.height + node.depth
    [] node.type = "kern" -> node.w
    [] node.type = "glue" -> statedGlue(parent, node)
    [] OTHER -> 0

\* every child box of a vbox emitted at (x, y) is emitted at x plus its own
\* shift and at the cursor, which starts at y less the height of the vbox
\* and has passed the children before the child and the height of the child
vboxChildren ==
  \A k \in childVisitsOf("vbox") :
    LET path == visits[k].path
        parent == nodeAt(layout, parentPath(path))
        at == visitOf(parentPath(path))
        i == path[Len(path)]
    IN /\ visits[k].x = at.x + statedShift(parent.list[i])
       /\ visits[k].y = at.y - parent.height
                        + sumSeq([m \in 1..(i - 1) |->
                                    statedAdvanceY(parent, parent.list[m])])
                        + parent.list[i].height

\* the first box of the list of the root
firstBox ==
  CHOOSE i \in 1..Len(layout.list) :
    /\ layout.list[i].type \in {"box", "rule", "hbox", "vbox"}
    /\ \A m \in 1..(i - 1) : layout.list[m].type \notin {"box", "rule", "hbox", "vbox"}

rootVisited == visits # <<>> => (visits[1].x = 0 /\ visits[1].y = layout.height)

\* C28 (as stated): the children of a vbox are emitted as above, the root is
\* read at (0, height(root)), and the first child box of a root vbox is
\* emitted at y = height(first child).
C28_VBoxPositions ==
  /\ vboxChildren
  /\ rootVisited
  /\ \A k \in 1..Len(visits) :
       (isVBox(layout) /\ visits[k].path = <<firstBox>>) =>
         visits[k].y = layout.list[firstBox].height

\* C28 (amended): the same, the first child box of a root vbox being
\* emitted at the advances of the kerns and glue before it plus its height.
C28_VBoxPositionsAfterSkips ==
  /\ vboxChildren
  /\ rootVisited
  /\ \A k \in 1..Len(visits) :
       (isVBox(layout) /\ visits[k].path = <<firstBox>>) =>
         visits[k].y = sumSeq([m \in 1..(firstBox - 1) |->
                                 statedAdvanceY(layout, layout.list[m])])
                       + layout.list[firstBox].height

\* C28 witness: in a root vbox that starts with a glue it stretches, a
\* shifted list box was emitted and so was a box inside it
C28_Witness ==
  /\ isVBox(layout)
  /\ isGlue(layout.list[1])
  /\ statedGlue(layout, layout.list[1]) # layout.list[1].w
  /\ isListBox(layout.list[2])
  /\ layout.list[2].shiftAmount # 0
  /\ \E k \in 1..Len(visits) : Len(visits[k].path) = 2

-----------------------------------------------------------------------------
(* C29 *)

\* the three calls that close a math mode
Closing == <<"m_parser.finish", "output_routine", "machine.leaveCurrentMode">>

timesCalled(c) == Cardinality({ i \in DOMAIN history : history[i] = c })

\* the last write was one that closes the mode: a math-shift in state Main
\* below a horizontal mode, or a math-shift in state MathShift
closes ==
  /\ token = "MathShift"
  /\ \/ stateBefore = "Main" /\ parentKind = "Horizontal"
     \/ stateBefore = "MathShift"

\* the mode was closed by the last write: the three calls in order, each
\* made once since the mode was entered
closed ==
  /\ mathCalls = Closing
  /\ raised = ""
  /\ left
  /\ \A i \in DOMAIN Closing : timesCalled(Closing[i]) = 1

\* what the claim says of the tokens that do not close the mode
statedOtherwise ==
  /\ (stateBefore = "Main" /\ token = "MathShift" /\ parentKind # "Horizontal")
       => /\ m_state = "MathShift"
          /\ mathCalls = <<>>
          /\ raised = ""
          /\ ~left
  /\ (stateBefore = "MathShift" /\ token # "MathShift")
       => /\ raised = UnexpectedDollar
          /\ mathCalls = <<>>
          /\ ~left
  /\ (stateBefore = "Main" /\ token = "GroupBegin")
       => mathCalls = <<"machine.beginGroup", "m_parser.beginMathList">>
  /\ (stateBefore = "Main" /\ token = "GroupEnd")
       => mathCalls = <<"m_parser.endMathList", "machine.endGroup">>
  /\ \A i \in DOMAIN history :
       /\ history[i] = "machine.beginGroup"
            => i < Len(history) /\ history[i + 1] = "m_parser.beginMathList"
       /\ history[i] = "m_parser.beginMathList"
            => i > 1 /\ history[i - 1] = "machine.beginGroup"
       /\ history[i] = "machine.endGroup"
            => i > 1 /\ history[i - 1] = "m_parser.endMathList"
       /\ history[i] = "m_parser.endMathList"
            => i < Len(history) /\ history[i + 1] = "machine.endGroup"

\* C29: a math-shift in state Main below a horizontal mode, and a math-shift
\* in state MathShift, close the mode: parser finish, the output routine and
\* leaveCurrentMode, in that order and each once.  The first math-shift
\* below another mode only sets state MathShift; any other token in state
\* MathShift raises the error without output and without leaving; group
\* tokens call beginGroup before beginMathList and endGroup after
\* endMathList.
C29_ClosingProtocol ==
  token # "none" =>
    /\ closes => closed
    /\ statedOtherwise

\* C29 (amended): the same, where the closing is that of a mode built with
\* an output routine; the routine of the one-argument constructor throws,
\* so that the close stops after parser finish and the routine, raises
\* "MathMode::writeOutput()" and does not leave the mode.
C29_ClosingProtocolWithRoutine ==
  token # "none" =>
    /\ (closes /\ output_routine = "given") => closed
    /\ (closes /\ output_routine = "default")
         => /\ mathCalls = <<"m_parser.finish", "output_routine">>
            /\ raised = NoOutputRoutine
            /\ ~left
    /\ statedOtherwise

\* a display formula with a group in it is closed by its second math-shift
C29_Witness ==
  /\ closes
  /\ closed
  /\ stateBefore = "MathShift"
  /\ tokens = MaxTokens
  /\ timesCalled("machine.beginGroup") = 1

-----------------------------------------------------------------------------
(* C30 *)

\* a list of active breakpoints is in the order of their line numbers
orderedByLine(heap, active) ==
  \A k \in 1..(Len(active) - 1) : heap[active[k]].line <= heap[active[k + 1]].line

\* the members of `group`, in order, that are in `kept`
keptOf(group, kept) ==
  SelectSeq(group, LAMBDA a : \E k \in DOMAIN kept : kept[k] = a)

\* The points of a tryBreak call, one record for each turn of the outer
\* loop: `evaluated` are the breakpoints the inner loop has handed to
\* computeGlueRatio, `assertion` is the value of the expression of line 418,
\* `lists` are the states of the active list during the turn (after j steps
\* of the inner loop, and after m insertions), `heap` holds the breakpoints
\* made so far and `last` is the list at the end of the turn
RECURSIVE tryBreakPoints(_, _, _, _, _, _)
tryBreakPoints(heap, done, rest, list, pos, s) ==
  IF rest = <<>> THEN <<>>
  ELSE LET current_line == heap[Head(rest)].line
           r == innerLoop(heap, rest, current_line, list[pos], s,
                          EmptyCandidates, <<>>)
           local_sum == squeezeDiscardables(list, s, pos)
           new == newBreakpoints(r.candidates, heap, pos, local_sum, 0)
           ids == [k \in 1..Len(new) |-> Len(heap) + k]
           group == SubSeq(rest, 1, Len(rest) - Len(r.rest))
           erasing ==
             { done \o keptOf(SubSeq(group, 1, j), r.kept)
                    \o SubSeq(rest, j + 1, Len(rest)) : j \in 0..Len(group) }
           inserting ==
             { done \o r.kept \o SubSeq(ids, 1, m) \o r.rest : m \in 0..Len(ids) }
       IN << [ evaluated |-> group,
               assertion |-> (r.rest = <<>>
                              \/ heap[Head(r.rest)].line > current_line),
               lists |-> erasing \cup inserting,
               heap |-> heap \o new,
               made |-> ids,
               last |-> done \o r.kept \o ids \o r.rest ] >>
          \o tryBreakPoints(heap \o new, done \o r.kept \o ids, r.rest,
                            list, pos, s)

\* the loop of computeFeasibleBreakpoints is about to call tryBreak
beforeTryBreak ==
  /\ pc = "scan"
  /\ it <= Len(hlist)
  /\ breakAttempted(hlist, prevnode, it)

\* the points of that call
pointsOfCall == tryBreakPoints(bps, <<>>, activeNodes, hlist, it, sum)

\* the active list is ordered between the calls and at every point of the
\* call to come, whose assertions hold and whose inner loop is never handed
\* a breakpoint the call has made; the points are those of tryBreak
orderedThroughout ==
  /\ orderedByLine(bps, activeNodes)
  /\ beforeTryBreak =>
       /\ \A p \in DOMAIN pointsOfCall :
            /\ pointsOfCall[p].assertion
            /\ \A l \in pointsOfCall[p].lists :
                 orderedByLine(pointsOfCall[p].heap, l)
            /\ \A k \in DOMAIN pointsOfCall[p].evaluated :
                 pointsOfCall[p].evaluated[k] <= Len(bps)
       /\ LET n == Len(pointsOfCall)
              out == tryBreak(bps, activeNodes, hlist, it, sum)
          IN IF n = 0 THEN out.activeNodes = activeNodes
             ELSE /\ out.activeNodes = pointsOfCall[n].last
                  /\ out.bps = pointsOfCall[n].heap

\* C30: the active list is ordered by non-decreasing line between and inside
\* the tryBreak calls, the assertion of line 418 never fails, a breakpoint
\* made by a call is not evaluated as a predecessor within that call, and
\* no breakpoint has a predecessor at its own position.
C30_ActiveOrdered ==
  /\ orderedThroughout
  /\ \A j \in DOMAIN bps :
       bps[j].previous # 0 => bps[bps[j].previous].position # bps[j].position

\* C30 (amended): the same, but the predecessor of a breakpoint lies before
\* it except for the first breakpoint, which is made at hlist.begin() and
\* is the predecessor of a breakpoint at hlist.begin() when the list begins
\* with a penalty at which a break is tried and feasible.
C30_ActiveOrderedAfterFirst ==
  /\ orderedThroughout
  /\ \A j \in DOMAIN bps :
       bps[j].previous # 0 =>
         \/ bps[bps[j].previous].position < bps[j].position
         \/ /\ bps[j].previous = 1
            /\ bps[j].position = 1
            /\ isPenalty(hlist[1])

\* a call that finds breakpoints of two line numbers active, erases one and
\* puts new breakpoints after each of the two groups
C30_Witness ==
  /\ beforeTryBreak
  /\ Len(pointsOfCall) >= 2
  /\ pointsOfCall[1].made # <<>>
  /\ pointsOfCall[2].made # <<>>
  /\ Len(tryBreak(bps, activeNodes, hlist, it, sum).activeNodes)
       < Len(activeNodes) + Len(pointsOfCall[1].made) + Len(pointsOfCall[2].made)

-----------------------------------------------------------------------------
(* C31 *)

\* The turns of the inner loop for one group, one record for each: the
\* breakpoint `active` points to, its ratio, whether line 396 erases it, and
\* the candidates before and after lines 398-413
RECURSIVE innerLoopSteps(_, _, _, _, _, _)
innerLoopSteps(heap, rest, current_line, node, s, cands) ==
  IF rest = <<>> \/ heap[Head(rest)].line # current_line THEN <<>>
  ELSE LET a == Head(rest)
           ratio == computeGlueRatio(s, heap[a], current_line)
           after == updateCandidates(cands, heap, a, ratio, node)
       IN << [ active |-> a, ratio |-> ratio,
               erased |-> Deactivates(ratio, node),
               before |-> cands, after |-> after ] >>
          \o innerLoopSteps(heap, Tail(rest), current_line, node, s, after)

\* the turns of the inner loop of a whole tryBreak call, group after group
RECURSIVE stepsOfTryBreak(_, _, _, _, _)
stepsOfTryBreak(heap, rest, list, pos, s) ==
  IF rest = <<>> THEN <<>>
  ELSE LET current_line == heap[Head(rest)].line
           r == innerLoop(heap, rest, current_line, list[pos], s,
                          EmptyCandidates, <<>>)
           local_sum == squeezeDiscardables(list, s, pos)
           new == newBreakpoints(r.candidates, heap, pos, local_sum, 0)
       IN innerLoopSteps(heap, rest, current_line, list[pos], s, EmptyCandidates)
          \o stepsOfTryBreak(heap \o new, r.rest, list, pos, s)

\* the turns of the call to come, and what it returns
stepsOfCall == stepsOfTryBreak(bps, activeNodes, hlist, it, sum)

resultOfCall == tryBreak(bps, activeNodes, hlist, it, sum)

\* the breakpoint of a turn is a candidate: after the turn the candidate of
\* its fitness class is the breakpoint itself, or one that was there before
\* with no more demerits
offered(step) ==
  LET fc == getFitnessClass(step.ratio)
      d == candidateDemerits(bps[step.active], step.ratio, hlist[it])
  IN /\ step.after[fc].demerits <= d
     /\ \/ step.after[fc].active = step.active
        \/ step.after[fc] = step.before[fc]
     /\ \A c \in 0..3 : c # fc => step.after[c] = step.before[c]

\* the breakpoints the call makes whose predecessor is a
madeFrom(a) ==
  { j \in (Len(bps) + 1)..Len(resultOfCall.bps) : resultOfCall.bps[j].previous = a }

\* C31: in a tryBreak call a breakpoint erased because its ratio is below -1
\* is not recorded as a candidate; one erased only because the node is a
\* forced break is a candidate exactly when -1 <= ratio <= tolerance; and the
\* loop goes on over the remaining active breakpoints: each is visited once,
\* in order, and those not erased stay active, in order.
C31_DeactivationOrder ==
  beforeTryBreak =>
    /\ \A k \in DOMAIN stepsOfCall :
         LET step == stepsOfCall[k]
         IN /\ step.erased <=>
                 (RatioLess(step.ratio, -1) \/ isForcedLinebreak(hlist[it]))
            /\ (step.erased /\ RatioLess(step.ratio, -1)) =>
                 /\ step.after = step.before
                 /\ madeFrom(step.active) = {}
            /\ (step.erased /\ ~RatioLess(step.ratio, -1)) =>
                 IF RatioLeq(step.ratio, par.tolerance)
                   THEN offered(step)
                   ELSE step.after = step.before /\ madeFrom(step.active) = {}
    /\ [k \in DOMAIN stepsOfCall |-> stepsOfCall[k].active] = activeNodes
    /\ SelectSeq(resultOfCall.activeNodes, LAMBDA a : a <= Len(bps))
         = SelectSeq(activeNodes,
                     LAMBDA a : \E k \in DOMAIN stepsOfCall :
                       stepsOfCall[k].active = a /\ ~stepsOfCall[k].erased)

\* at a forced break one active breakpoint is erased for its ratio and is
\* the predecessor of nothing, another is erased for the forced break alone
\* and is the predecessor of the breakpoint made there
C31_Witness ==
  /\ beforeTryBreak
  /\ isForcedLinebreak(hlist[it])
  /\ \E k \in DOMAIN stepsOfCall : RatioLess(stepsOfCall[k].ratio, -1)
  /\ \E k \in DOMAIN stepsOfCall :
       /\ ~RatioLess(stepsOfCall[k].ratio, -1)
       /\ madeFrom(stepsOfCall[k].active) # {}

-----------------------------------------------------------------------------
(* C32 *)

\* C32: for every chain computeBreakpoints returns on a prepared list,
\* consumeDiscardable never moves the start of a line past the next
\* breakpoint and never reads past the end of the list: every createLine
\* call gets begin <= end, and create runs to its end.
C32_AssemblySafe ==
  /\ pc \notin {"crashed", "undefined"}
  /\ pc = "create" =>
       /\ lineStart <= Len(hlist)
       /\ lineStart <= bps[breakpoints[bp]].position

-----------------------------------------------------------------------------
(* C33 *)

\* the box nodes of a list, in order
boxesOf(list) == SelectSeq(list, isBox)

\* the slices of the first n lines built, one after the other
RECURSIVE slicesUpTo(_)
slicesUpTo(n) == IF n = 0 THEN <<>> ELSE slicesUpTo(n - 1) \o sliceOfLine(n)

\* the k-th line holds the nodes from `start` up to the k-th break, and
\* what lies between the break before and `start` is discardable
startsAt(k, start) ==
  /\ sliceOfLine(k) = SubSeq(hlist, start, breakPosition(k) - 1)
  /\ IF k = 1 THEN start = 1
     ELSE /\ breakPosition(k - 1) <= start
          /\ \A i \in breakPosition(k - 1)..(start - 1) : isDiscardable(hlist[i])

\* C33: create runs to its end on the chain computeBreakpoints returns and
\* makes one HBox for each breakpoint after the initial one, in the order of
\* the chain; the boxes of the lines are the boxes of the hlist, each once
\* and in order; the nodes in no line are discardable nodes from a break
\* on, the final penalty after the last line among them.
C33_ContentPreserved ==
  /\ pc \notin {"crashed", "undefined"}
  /\ (pc \in {"create", "done"} /\ hlist # <<>>) =>
       /\ Len(result) = 2 * (bp - 2)
       /\ \A k \in 1..(bp - 2) :
            /\ result[2 * k].type = "hbox"
            /\ \E start \in 1..breakPosition(k) : startsAt(k, start)
  /\ (pc = "done" /\ hlist # <<>>) =>
       /\ Cardinality(hboxesOf(result)) = Len(breakpoints) - 1
       /\ boxesOf(slicesUpTo(Len(breakpoints) - 1)) = boxesOf(hlist)
       /\ \A i \in breakPosition(Len(breakpoints) - 1)..Len(hlist) :
            isDiscardable(hlist[i])
  /\ (pc = "done" /\ hlist = <<>>) => result = <<>>

-----------------------------------------------------------------------------
(* C34 *)

\* C34: a partial traversal whose visitor always answers Continue calls the
\* visitor with the boxes and positions of the full traversal, in the same
\* order; one whose visitor answers Done at its n-th call makes the first n
\* of those calls.  What read has done when it returns is what the
\* functions of its mode make of the tree.
C34_ModesAgree ==
  LET full == readFull(layout)
  IN /\ readPartial(layout, 0) = full
     /\ \A n \in 1..Len(full) : readPartial(layout, n) = SubSeq(full, 1, n)
     /\ mode = "full" =>
          /\ visits = SubSeq(full, 1, Len(visits))
          /\ readOver => visits = full
     /\ mode = "partial" =>
          /\ visits = SubSeq(readPartial(layout, doneAt), 1, Len(visits))
          /\ readOver => visits = readPartial(layout, doneAt)

\* a partial traversal of a tree of three levels has returned after Done
\* was answered for a box inside a box, away from the origin, with boxes
\* that the full traversal visits left out
C34_Witness ==
  /\ mode = "partial"
  /\ readOver
  /\ doneAt > 2
  /\ doneAt < Len(readFull(layout))
  /\ visits = SubSeq(readFull(layout), 1, doneAt)
  /\ Len(visits[doneAt].path) >= 2
  /\ visits[doneAt].x # 0
  /\ visits[doneAt].y # layout.height


=============================================================================
